---- MODULE Spec2Model ----
(***************************************************************************)
(* Model of the GNW ignition engine (gnw_engine.py) and of the unconscious *)
(* modules it drives (modules_inconscients.py).                            *)
(*                                                                         *)
(* Python strings are sequences of atoms (an atom is one character or one  *)
(* literal fragment of an f-string), so that concatenation, emptiness and  *)
(* containment are what they are in the code.  JSON values are records     *)
(* tagged by their Python type in field t.  A call that can raise returns  *)
(* an outcome record: Ok(value) or Raise(exception class).                 *)
(***************************************************************************)
EXTENDS Integers, Sequences, FiniteSets, TLC

VARIABLES
    arb_pc, arb_in, arb_out,            \* one call of IgnitionEngine.arbitrate
    san_pc, san_in, san_fallback, san_out,  \* one call of _safe_parse_module_response
    ana_pc, ana_name, ana_in, ana_out,  \* one call of InconscientModule.analyze
    mon_pc, mon_in, mon_out,            \* one call of Moniteur.analyze_coherence
    \* -- one call of MiniMaxBridge.generate_response -----------------------
    gen_pc,             \* where the call is
    gen_client,         \* self._client is not None
    gen_max_retries,    \* self._max_retries
    gen_attempt,        \* attempt of the retry loop
    gen_log,            \* how each request posted so far ended, in order
    gen_sleeps,         \* the back-off delays waited so far, in order
    gen_out,            \* what the call returned or raised
    \* -- several calls of run in flight on one engine ----------------------
    runs,               \* invocation -> where it is, its arguments and locals
    \* -- the engine -------------------------------------------------------
    mode,               \* "run": one call of run; "autonomous": run_autonomous_cycle
    max_iters, target_certainty, initial_stimulus, image_data,
                        \* arguments of the call (image_data: "none", "empty", "bytes")
    vision_init,        \* how the construction of the vision adapter ended in __init__
    has_vision,         \* IgnitionEngine._has_vision
    modules,            \* IgnitionEngine._modules: the names of the agents, in order
    heap,               \* the GlobalWorkspace objects ever constructed, by identity
    engine_ws,          \* IgnitionEngine._workspace: a reference into heap
    pc,                 \* where the call is suspended
    iter,               \* i of run_autonomous_cycle
    context, instruction,       \* previous_context / monitor_instruction of the cycle
    vision_calls,       \* calls of the vision module in this cycle, and how the
                        \* vision bridge's call ended (reply) once it has (ended)
    vision_result,      \* empty for None, else the one-element tuple of the result
    analyzer_calls,     \* k -> arguments and prompt of the k-th module's analyze
    task_state,         \* k -> pending, or how the k-th analyze call ended
    completion,         \* module indices in the order their calls completed
    results,            \* the list process_stimulus returns
    winner,             \* empty before arbitration, else the one-element tuple of the winner
    monitor_calls,      \* requests sent by the monitor in this cycle
    monitor_result,     \* empty before the monitor returns, else the one-element tuple of its reply
    emitted,            \* references of the workspaces yielded / returned, in order
    emitted_val,        \* history: the value of each workspace when it was emitted
    verdicts            \* history: the monitor verdict of each completed cycle

arb_vars == <<arb_pc, arb_in, arb_out>>
san_vars == <<san_pc, san_in, san_fallback, san_out>>
ana_vars == <<ana_pc, ana_name, ana_in, ana_out>>
mon_vars == <<mon_pc, mon_in, mon_out>>
gen_vars == <<gen_pc, gen_client, gen_max_retries, gen_attempt, gen_log, gen_sleeps, gen_out>>
ovl_vars == <<runs>>
pure_vars == <<arb_vars, san_vars, ana_vars, mon_vars, gen_vars, ovl_vars>>
params == <<mode, max_iters, target_certainty, initial_stimulus, image_data, vision_init,
            has_vision, modules>>
cycle_vars == <<vision_calls, vision_result, analyzer_calls, task_state, completion,
                results, winner, monitor_calls, monitor_result>>
eng_vars == <<params, heap, engine_ws, pc, iter, context, instruction, cycle_vars,
              emitted, emitted_val, verdicts>>
vars == <<pure_vars, eng_vars>>

(***************************************************************************)
(* Bounds of the model                                                     *)
(***************************************************************************)
MaxResults == 3     \* longest result list handed to arbitrate on its own
MaxIters == 3       \* max_iters ranges over 0 .. MaxIters
MaxRetries == 5     \* max_retries of the bridge ranges over 0 .. MaxRetries
IntSpan == 5        \* integer priorities range over -IntSpan .. 10 + IntSpan

(***************************************************************************)
(* Outcomes of calls                                                       *)
(***************************************************************************)
Ok(v) == [raised |-> FALSE, exc |-> "", value |-> v]
Raise(e) == [raised |-> TRUE, exc |-> e, value |-> <<>>]

(***************************************************************************)
(* JSON values as json.loads builds them                                   *)
(***************************************************************************)
JInt(n) == [t |-> "int", v |-> n]
JStr(s) == [t |-> "str", s |-> s]
JFloat(tenths) == [t |-> "float", tenths |-> tenths]   \* the float tenths/10
JInf == [t |-> "inf"]                                  \* 1e999, Infinity
JNaN == [t |-> "nan"]
JBool(b) == [t |-> "bool", b |-> b]
JNull == [t |-> "null"]
JList == [t |-> "list"]
JObj(f) == [t |-> "obj", f |-> f]

\* dict.get(key, default) on a parsed JSON object
DictGet(obj, key, default) == IF key \in DOMAIN obj.f THEN obj.f[key] ELSE default

Digits == <<"0", "1", "2", "3", "4", "5", "6", "7", "8", "9">>
IsDigit(c) == \E d \in 1..10 : Digits[d] = c
DigitVal(c) == (CHOOSE d \in 1..10 : Digits[d] = c) - 1

RECURSIVE StripLeft(_)
StripLeft(s) == IF s # <<>> /\ Head(s) = " " THEN StripLeft(Tail(s)) ELSE s
RECURSIVE StripRight(_)
StripRight(s) ==
    IF s # <<>> /\ s[Len(s)] = " " THEN StripRight(SubSeq(s, 1, Len(s) - 1)) ELSE s
Strip(s) == StripRight(StripLeft(s))

RECURSIVE DigitsValue(_, _)
DigitsValue(s, acc) ==
    IF s = <<>> THEN acc ELSE DigitsValue(Tail(s), 10 * acc + DigitVal(Head(s)))

\* int(str): surrounding blanks, an optional sign, then one or more digits
ParseInt(s) ==
    LET body == Strip(s)
        signed == body # <<>> /\ Head(body) \in {"-", "+"}
        digits == IF signed THEN Tail(body) ELSE body
    IN  IF digits = <<>> \/ \E k \in 1..Len(digits) : ~IsDigit(digits[k])
        THEN Raise("ValueError")
        ELSE IF signed /\ Head(body) = "-"
             THEN Ok(0 - DigitsValue(digits, 0))
             ELSE Ok(DigitsValue(digits, 0))

\* int(float): truncation toward zero
Trunc(tenths) == IF tenths >= 0 THEN tenths \div 10 ELSE 0 - ((0 - tenths) \div 10)

\* Python's int(x) on a parsed JSON value
IntCoerce(x) ==
    CASE x.t = "int" -> Ok(x.v)
      [] x.t = "bool" -> Ok(IF x.b THEN 1 ELSE 0)
      [] x.t = "float" -> Ok(Trunc(x.tenths))
      [] x.t = "inf" -> Raise("OverflowError")
      [] x.t = "nan" -> Raise("ValueError")
      [] x.t = "str" -> ParseInt(x.s)
      [] OTHER -> Raise("TypeError")

RECURSIVE IntDigits(_)
IntDigits(n) == IF n < 10 THEN <<Digits[n + 1]>> ELSE Append(IntDigits(n \div 10), Digits[(n % 10) + 1])

\* Python's str(x) on a parsed JSON value
StrOf(x) ==
    CASE x.t = "str" -> x.s
      [] x.t = "int" -> IF x.v < 0 THEN <<"-">> \o IntDigits(0 - x.v) ELSE IntDigits(x.v)
      [] x.t = "bool" -> IF x.b THEN <<"True">> ELSE <<"False">>
      [] x.t = "null" -> <<"None">>
      [] x.t = "list" -> <<"[]">>
      [] x.t = "inf" -> <<"inf">>
      [] x.t = "nan" -> <<"nan">>
      [] x.t = "float" -> <<"float">>
      [] OTHER -> <<"{}">>

(***************************************************************************)
(* _safe_parse_module_response                                             *)
(***************************************************************************)
PriorityMin == 0
PriorityMax == 10

Min2(a, b) == IF a < b THEN a ELSE b
Max2(a, b) == IF a > b THEN a ELSE b
Clamp(n) == Max2(PriorityMin, Min2(PriorityMax, n))

DefaultAnalysis == <<"Aucune analyse disponible.">>

AnalysisResult(p, a, m) == [priority |-> p, analysis |-> a, module_name |-> m]

ParsePriorityNoClamp(raw) ==
    LET c == IntCoerce(DictGet(raw, "priority", JInt(0)))
    IN  IF c.raised
        THEN IF c.exc \in {"TypeError", "ValueError"} THEN Ok(0) ELSE c
        ELSE Ok(c.value)

\* The try/except of the sanitizer: Ok(priority), or the exception that escapes
ParsePriority(raw) ==
    LET c == IntCoerce(DictGet(raw, "priority", JInt(0)))
    IN  IF c.raised
        THEN IF c.exc \in {"TypeError", "ValueError"} THEN Ok(0) ELSE c
        ELSE Ok(Clamp(c.value))

SafeParse(raw, fallback_name) ==
    IF raw.t # "obj"
    THEN Raise("AttributeError")        \* raw.get on a value that is no dict
    ELSE LET p == ParsePriority(raw)
         IN  IF p.raised
             THEN p
             ELSE Ok(AnalysisResult(
                      p.value,
                      StrOf(DictGet(raw, "analysis", JStr(DefaultAnalysis))),
                      StrOf(DictGet(raw, "module_name", JStr(fallback_name)))))

(***************************************************************************)
(* IgnitionEngine.arbitrate                                                *)
(***************************************************************************)
ArbitrateSentinel ==
    AnalysisResult(0, <<"Aucun résultat à arbitrer.">>, <<"Aucun">>)

\* key=lambda r: r.get("priority", 0)
PriorityKey(r) == IF "priority" \in DOMAIN r THEN r.priority ELSE 0

\* max(results, key=...): one pass, a later element replaces the best only
\* when its key is strictly greater
RECURSIVE MaxByKey(_, _, _)
MaxByKey(rs, k, best) ==
    IF k > Len(rs)
    THEN best
    ELSE MaxByKey(rs, k + 1,
                  IF PriorityKey(rs[k]) > PriorityKey(best) THEN rs[k] ELSE best)

RECURSIVE MaxByKeyLast(_, _, _)
MaxByKeyLast(rs, k, best) ==
    IF k > Len(rs)
    THEN best
    ELSE MaxByKeyLast(rs, k + 1,
                      IF PriorityKey(rs[k]) >= PriorityKey(best) THEN rs[k] ELSE best)

ArbitrateLastMax(rs) ==
    IF rs = <<>>
    THEN Ok(ArbitrateSentinel)
    ELSE Ok(MaxByKeyLast(rs, 2, rs[1]))

ArbitrateNoGuard(rs) ==
    IF rs = <<>>
    THEN Raise("ValueError")            \* max() of an empty sequence
    ELSE Ok(MaxByKey(rs, 2, rs[1]))

Arbitrate(rs) ==
    IF rs = <<>>
    THEN Ok(ArbitrateSentinel)
    ELSE Ok(MaxByKey(rs, 2, rs[1]))

(***************************************************************************)
(* InconscientModule.analyze                                               *)
(***************************************************************************)
\* IgnitionEngine.__init__: the four registered modules, in this order
RegisteredModules ==
    << <<"Géomètre">>, <<"Linguiste">>, <<"Pragmatique">>, <<"Social">> >>

\* the agent list the engine dispatches to
ModuleNames == modules
NumModules == Len(ModuleNames)

\* a degraded result that still competes in arbitration
DegradedUrgent(prefix, exc, name) == AnalysisResult(1, <<prefix, exc>>, name)

\* the dict the except clauses build
Degraded(prefix, exc, name) == AnalysisResult(0, <<prefix, exc>>, name)

\* The prompt analyze sends: the optional context and directive blocks, then
\* the stimulus
BuildPrompt(name, stimulus, previous_context, monitor_instruction) ==
    LET context_str ==
            IF previous_context # <<>>
            THEN <<"CONTEXTE SYSTÈME : ">> \o previous_context \o <<"<nl>">>
            ELSE <<>>
        instruction_str ==
            IF monitor_instruction # <<>>
            THEN <<"ORDRE DU MONITEUR (PRIORITAIRE) : ">> \o monitor_instruction
                 \o <<"Tu DOIS obéir à cet ordre.<nl>">>
            ELSE <<>>
    IN  <<"Analyse le stimulus suivant à travers ta spécialité cognitive (">>
        \o name \o <<").<nl>">> \o context_str \o instruction_str
        \o <<"Stimulus : ">> \o stimulus \o <<"<nl>", "Consigne : réponds avec un objet JSON.">>

\* analyze without its except clauses
AnalyzeNoCatch(name, bridge) ==
    IF bridge.raised THEN bridge ELSE SafeParse(bridge.value, name)

\* analyze, given how generate_response ended: the sanitized reply, or a
\* degraded result when the call or the sanitizer raised
Analyze(name, bridge) ==
    LET parsed == IF bridge.raised THEN bridge ELSE SafeParse(bridge.value, name)
    IN  IF ~parsed.raised
        THEN Ok(parsed.value)
        ELSE IF parsed.exc \in {"JSONDecodeError", "KeyError", "TypeError"}
             THEN Ok(Degraded("Erreur de parsing : ", parsed.exc, name))
             ELSE Ok(Degraded("Erreur inattendue : ", parsed.exc, name))

(***************************************************************************)
(* Moniteur.analyze_coherence                                              *)
(***************************************************************************)
MonitorName == <<"Moniteur">>

\* Python's bool(x) on a parsed JSON value
Truthy(x) ==
    CASE x.t = "bool" -> x.b
      [] x.t = "int" -> x.v # 0
      [] x.t = "str" -> x.s # <<>>
      [] x.t = "null" -> FALSE
      [] x.t = "float" -> x.tenths # 0
      [] x.t = "obj" -> DOMAIN x.f # {}
      [] x.t = "list" -> FALSE
      [] OTHER -> TRUE

RECURSIVE SummaryLines(_)
SummaryLines(rs) ==
    IF rs = <<>>
    THEN <<>>
    ELSE <<"- ">> \o Head(rs).module_name \o <<": Priorité ">>
         \o IntDigits(Head(rs).priority) \o <<"/10. Analyse: ">>
         \o Head(rs).analysis \o <<"<nl>">> \o SummaryLines(Tail(rs))

\* a monitor request that repeats the instruction the cycle was run with
MonitorPromptWithInstruction(modules_results) ==
    <<"Voici les analyses produites par le système :<nl>", "RÉSULTATS DES MODULES :<nl>">>
    \o instruction
    \o SummaryLines(modules_results)
    \o <<"Évalue la cohérence. Réponds au format JSON strict.">>

\* a summary that leaves out the results of priority 0
MonitorPromptIgnited(modules_results) ==
    <<"Voici les analyses produites par le système :<nl>", "RÉSULTATS DES MODULES :<nl>">>
    \o SummaryLines(SelectSeq(modules_results, LAMBDA r : r.priority > 0))
    \o <<"Évalue la cohérence. Réponds au format JSON strict.">>

\* The request of the monitor: a summary of the results and nothing else
MonitorPrompt(modules_results) ==
    <<"Voici les analyses produites par le système :<nl>", "RÉSULTATS DES MODULES :<nl>">>
    \o SummaryLines(modules_results)
    \o <<"Évalue la cohérence. Réponds au format JSON strict.">>

DefaultCertainty == 50
DefaultFeedback == <<"Analyse méta-cognitive indisponible.">>

Verdict(certainty, fb, analysis, conflict) ==
    [module_name |-> MonitorName, priority |-> 0, analysis |-> analysis,
     certainty |-> certainty, feedback |-> fb, conflict_detected |-> conflict]

MonitorDegraded(exc) == Verdict(0, <<"Erreur: ", exc>>, <<"Erreur moniteur: ", exc>>, TRUE)

\* the try block of analyze_coherence, given how generate_response ended
CoherenceBody(bridge) ==
    IF bridge.raised
    THEN bridge
    ELSE IF bridge.value.t # "obj"
    THEN Raise("AttributeError")
    ELSE LET raw == bridge.value
             c == IntCoerce(DictGet(raw, "certainty", JInt(DefaultCertainty)))
             fb == StrOf(DictGet(raw, "feedback", JStr(DefaultFeedback)))
         IN  IF c.raised
             THEN c
             ELSE Ok(Verdict(c.value, fb, fb,
                             Truthy(DictGet(raw, "conflict_detected", JBool(FALSE)))))

\* analyze_coherence without its except clause
AnalyzeCoherenceNoCatch(bridge) == CoherenceBody(bridge)

\* a degraded verdict that keeps the default certainty
AnalyzeCoherenceOptimistic(bridge) ==
    LET body == CoherenceBody(bridge)
    IN  IF body.raised
        THEN Ok(Verdict(DefaultCertainty, <<"Erreur: ", body.exc>>,
                        <<"Erreur moniteur: ", body.exc>>, FALSE))
        ELSE body

\* analyze_coherence: the verdict, or the degraded verdict when the try block
\* raised
AnalyzeCoherence(bridge) ==
    LET body == CoherenceBody(bridge)
    IN  IF body.raised THEN Ok(MonitorDegraded(body.exc)) ELSE body

(***************************************************************************)
(* VisionModule.analyze_image                                              *)
(***************************************************************************)
VisionName == <<"Vision">>

VisionPrompt(ctx, monitor_instruction) ==
    <<"ANALYSE TECHNIQUE REQUISE", "Contexte cognitif actuel : ">> \o ctx \o <<"<nl>">>
    \o (IF monitor_instruction # <<>>
        THEN <<"ORDRE DU MONITEUR : ">> \o monitor_instruction \o <<"<nl>">>
        ELSE <<>>)
    \o <<"Réponds UNIQUEMENT avec un objet JSON valide">>

\* The JSON objects a vision reply can spell between its braces
VisionPayloads == {"V8", "V0"}
VisionPayload(atom) ==
    IF atom = "V8"
    THEN JObj([priority |-> JInt(8), analysis |-> JStr(<<"un chat roux">>),
               module_name |-> JStr(VisionName)])
    ELSE JObj([priority |-> JInt(0), analysis |-> JStr(<<"rien">>),
               module_name |-> JStr(VisionName)])

RECURSIVE RemoveAtoms(_, _)
RemoveAtoms(text, atoms) ==
    IF text = <<>>
    THEN <<>>
    ELSE IF Head(text) \in atoms
         THEN RemoveAtoms(Tail(text), atoms)
         ELSE <<Head(text)>> \o RemoveAtoms(Tail(text), atoms)

\* str.find / str.rfind of one atom: 0 when absent
Find(text, atom) ==
    IF \E k \in 1..Len(text) : text[k] = atom
    THEN CHOOSE k \in 1..Len(text) :
            text[k] = atom /\ \A j \in 1..(k - 1) : text[j] # atom
    ELSE 0
RFind(text, atom) ==
    IF \E k \in 1..Len(text) : text[k] = atom
    THEN CHOOSE k \in 1..Len(text) :
            text[k] = atom /\ \A j \in (k + 1)..Len(text) : text[j] # atom
    ELSE 0

\* json.loads of a text: an object when the text is one brace-delimited payload
JsonLoads(text) ==
    IF Len(text) = 3 /\ text[1] = "{" /\ text[3] = "}" /\ text[2] \in VisionPayloads
    THEN Ok(VisionPayload(text[2]))
    ELSE Raise("JSONDecodeError")

\* the try block of analyze_image, given how the vision bridge's call ended
ImageBody(bridge) ==
    IF bridge.raised
    THEN bridge
    ELSE LET stripped == Strip(RemoveAtoms(bridge.value, {"<fence json>", "<fence>"}))
             start == Find(stripped, "{")
             end == RFind(stripped, "}")
             cleaned == IF start # 0 /\ end # 0
                        THEN SubSeq(stripped, start, end)
                        ELSE stripped
             data == JsonLoads(cleaned)
         IN  IF data.raised THEN data ELSE SafeParse(data.value, VisionName)

\* analyze_image without its except clause
AnalyzeImageNoCatch(bridge) == ImageBody(bridge)

\* analyze_image: the sanitized reply, or a degraded result when the try
\* block raised
AnalyzeImage(bridge) ==
    LET body == ImageBody(bridge)
    IN  IF body.raised
        THEN Ok(Degraded("Échec vision : ", body.exc, VisionName))
        ELSE body

(***************************************************************************)
(* GlobalWorkspace and the pure steps of IgnitionEngine                    *)
(***************************************************************************)
Workspace(wm, an, pr, ce, fb, ar, rs) ==
    [winning_module |-> wm, analysis |-> an, priority |-> pr, certainty |-> ce,
     feedback |-> fb, all_results |-> ar, raw_stimulus |-> rs]

EmptyWorkspace == Workspace(<<>>, <<>>, 0, 0, <<>>, <<>>, <<>>)

\* is_conscious looking at the winner's name only
IsConsciousNamed(ws) == ws.winning_module # <<>>

\* GlobalWorkspace.is_conscious
IsConscious(ws) == ws.priority > 0 /\ ws.winning_module # <<>>

\* a vision test that takes any bytes object, the empty one too, for an image
\* (image_data is not None)
VisionRunsAnyImage(image, vision_on) == image # "none" /\ vision_on

\* process_stimulus, step 1: the vision module runs when there are image
\* bytes (a non-empty value) and the engine has a vision module
VisionRuns(image, vision_on) == image = "bytes" /\ vision_on

FullStimulusNoVision(input_text, vres) == input_text

\* the vision block appended whatever the priority of the vision result
FullStimulusAlways(input_text, vres) ==
    IF vres # <<>>
    THEN input_text \o <<"<nl>[CONTEXTE VISUEL DU MODULE VISION] : ">>
         \o vres[1].analysis \o <<"<nl>">>
    ELSE input_text

\* process_stimulus, step 2: the stimulus handed to every module
FullStimulus(input_text, vres) ==
    IF vres # <<>> /\ vres[1].priority > 0
    THEN input_text \o <<"<nl>[CONTEXTE VISUEL DU MODULE VISION] : ">>
         \o vres[1].analysis \o <<"<nl>">>
    ELSE input_text

Pending == [kind |-> "pending"]
TaskDict(v) == [kind |-> "dict", value |-> v]
TaskExc(e) == [kind |-> "exc", exc |-> e]
TaskOther(ty) == [kind |-> "other", type |-> ty]

\* One entry of the joined list, from how the k-th call ended
JoinEntry(state, name) ==
    CASE state.kind = "exc" -> AnalysisResult(0, <<"Exception : ", state.exc>>, name)
      [] state.kind = "dict" -> state.value
      [] OTHER -> AnalysisResult(0, <<"Type inattendu : ", state.type>>, name)

RECURSIVE InOrder(_, _)
InOrder(tasks, order) ==
    IF order = <<>>
    THEN <<>>
    ELSE <<JoinEntry(tasks[Head(order)], ModuleNames[Head(order)])>>
         \o InOrder(tasks, Tail(order))

JoinResultsByCompletion(vres, tasks, order) == vres \o InOrder(tasks, order)

RECURSIVE InOrderDropFailed(_, _)
InOrderDropFailed(tasks, k) ==
    IF k > NumModules
    THEN <<>>
    ELSE (IF tasks[k].kind = "dict" THEN <<tasks[k].value>> ELSE <<>>)
         \o InOrderDropFailed(tasks, k + 1)

JoinResultsDropFailed(vres, tasks, order) == vres \o InOrderDropFailed(tasks, 1)

\* process_stimulus, lines 168-199: the vision result first, then one entry
\* per module in registration order (gather returns by position)
JoinResults(vres, tasks, order) ==
    vres \o [k \in 1..NumModules |-> JoinEntry(tasks[k], ModuleNames[k])]

\* broadcast taking the certainty and the feedback from the wrong dict
BroadcastWorkspaceMixed(winning_analysis, monitor_feedback, current) ==
    Workspace(winning_analysis.module_name, winning_analysis.analysis,
              monitor_feedback.priority, winning_analysis.priority,
              monitor_feedback.analysis, current.all_results, current.raw_stimulus)

\* broadcast: the new workspace, given the engine's current one
BroadcastWorkspace(winning_analysis, monitor_feedback, current) ==
    Workspace(
        IF "module_name" \in DOMAIN winning_analysis
            THEN winning_analysis.module_name ELSE <<"Inconnu">>,
        IF "analysis" \in DOMAIN winning_analysis THEN winning_analysis.analysis ELSE <<>>,
        IF "priority" \in DOMAIN winning_analysis THEN winning_analysis.priority ELSE 0,
        IF "certainty" \in DOMAIN monitor_feedback THEN monitor_feedback.certainty ELSE 0,
        IF "feedback" \in DOMAIN monitor_feedback THEN monitor_feedback.feedback ELSE <<>>,
        current.all_results,
        current.raw_stimulus)

ConvergedStrict(certainty, target) == certainty > target

\* a termination test that also stops on a degraded verdict
ConvergedOrDegraded(certainty, target) == certainty >= target \/ certainty = 0

\* run_autonomous_cycle, the termination test after each yield
Converged(certainty, target) == certainty >= target

InRangeShort(i, n) == i + 1 < n

\* a loop that runs one cycle more than range(max_iters)
InRangeInclusive(i, n) == i <= n

\* run_autonomous_cycle, for i in range(max_iters)
InRange(i, n) == i < n

(***************************************************************************)
(* Inputs of the two functions checked on their own                        *)
(***************************************************************************)
SeqsUpTo(S, n) == UNION {[1..k -> S] : k \in 0..n}

ArbPriorities == {0, 3, 7}
ArbNames == {<<"A">>, <<"B">>, <<"C">>}
ArbResults == {AnalysisResult(p, <<"a">>, m) : p \in ArbPriorities, m \in ArbNames}

PriorityStrings ==
    { <<"7">>, <<"1", "2">>, <<"-", "5">>, <<"+", "7">>, <<" ", "7", " ">>,
      <<"7", ".", "5">>, <<"a", "b", "c">>, <<>>, <<"-">>, <<"1", "0">> }

PriorityFloatTenths == {-5, 79, 125, -12}

PriorityValues ==
    {JInt(n) : n \in (0 - IntSpan)..(PriorityMax + IntSpan)}
    \cup {JStr(s) : s \in PriorityStrings}
    \cup {JFloat(x) : x \in PriorityFloatTenths}
    \cup {JInf, JNaN, JNull, JList, JBool(TRUE), JObj(<<>>)}

TextValues == {JStr(<<"x">>), JStr(<<>>), JNull, JInt(42)}

\* A reply object: each of the three keys absent or present with a value
OptionalField(key, values) == {<<>>} \cup {(key :> v) : v \in values}

ReplyObjects ==
    {JObj(p @@ a @@ m) : p \in OptionalField("priority", PriorityValues),
                         a \in OptionalField("analysis", {JStr(<<"x">>), JNull}),
                         m \in OptionalField("module_name", TextValues)}

NonObjectReplies == {JList, JStr(<<"x">>), JInt(3), JNull}

RawReplies == ReplyObjects \cup NonObjectReplies

FallbackNames == {<<"Linguiste">>, <<"Vision">>}

SanIdle ==
    /\ san_pc = "idle"
    /\ san_in = JNull
    /\ san_fallback = <<>>
    /\ san_out = Ok(<<>>)

ArbIdle ==
    /\ arb_pc = "idle"
    /\ arb_in = <<>>
    /\ arb_out = Ok(<<>>)

AnaIdle ==
    /\ ana_pc = "idle"
    /\ ana_name = <<>>
    /\ ana_in = Ok(JNull)
    /\ ana_out = Ok(<<>>)

RunsIdle == runs = <<>>

GenIdle ==
    /\ gen_pc = "idle"
    /\ gen_client = FALSE
    /\ gen_max_retries = 0
    /\ gen_attempt = 0
    /\ gen_log = <<>>
    /\ gen_sleeps = <<>>
    /\ gen_out = Ok(<<>>)

MonIdle ==
    /\ mon_pc = "idle"
    /\ mon_in = Ok(JNull)
    /\ mon_out = Ok(<<>>)

(***************************************************************************)
(* The services, as the engine sees them                                   *)
(***************************************************************************)
TargetCertainties == {0, 50, 90}
Stimulus == <<"Le chat est sur le tapis.">>

\* the stimulus texts the runs are started with
Stimuli == {Stimulus, <<"Combien de marqueurs ?">>}

\* A well-formed reply of the generation service to the module called name
ModuleReply(name, p) ==
    JObj([priority |-> JInt(p), analysis |-> JStr(<<"analyse de ">> \o name),
          module_name |-> JStr(name)])

MonitorReply(c, fb) ==
    JObj([certainty |-> JInt(c), feedback |-> JStr(fb), conflict_detected |-> JBool(c < 90)])

\* A reply whose module_name is the empty string
AnonymousReply ==
    JObj([priority |-> JInt(9), analysis |-> JStr(<<"analyse anonyme">>),
          module_name |-> JStr(<<>>)])

\* How generate_response can end for a module's call
ModuleBridgeOutcomes(m, name) ==
    IF m = "run"
    THEN {Ok(ModuleReply(name, 7)), Ok(AnonymousReply), Ok(JList),
          Raise("MiniMaxBridgeError")}
    ELSE {Ok(ModuleReply(name, 7))}

\* How the k-th module's analyze call can end: a dict built by analyze, or
\* (a module overriding analyze, a cancelled task) an exception
TaskOf(outcome) ==
    IF outcome.raised THEN TaskExc(outcome.exc) ELSE TaskDict(outcome.value)

TaskEndings(m, k) ==
    {TaskOf(Analyze(ModuleNames[k], b)) : b \in ModuleBridgeOutcomes(m, ModuleNames[k])}
    \cup (IF m = "run" THEN {TaskExc("RuntimeError")} ELSE {})

\* How generate_response can end for the monitor's call
MonitorBridgeOutcomes(m) ==
    IF m = "run"
    THEN {Ok(MonitorReply(95, <<"Consensus parfait.">>)),
          Ok(MonitorReply(150, <<"Certitude absolue.">>)),
          Ok(JList),
          Raise("MiniMaxBridgeError")}
    ELSE {Ok(MonitorReply(50, <<"ERREUR DE FOCALISATION : cherche le chiffre 1">>)),
          Ok(MonitorReply(90, <<"Consensus.">>)),
          Ok(MonitorReply(95, <<"Consensus parfait.">>)),
          Raise("MiniMaxBridgeError")}

\* The texts the vision bridge can return
VisionTexts(m) ==
    IF m = "run"
    THEN { <<"<fence json>", "{", "V8", "}", "<fence>">>,
           <<"{", "V0", "}">>,
           <<"Je vois ", "{", "un chat", "}">>,
           <<"Echec vision (Ollama) : ", "timeout">> }
    ELSE { <<"<fence json>", "{", "V8", "}", "<fence>">>,
           <<"Echec vision (Ollama) : ", "timeout">> }

\* How the vision bridge's call can end: the bridges return a text whatever
\* happens; anything else raises inside analyze_image's try block
VisionBridgeOutcomes(m) ==
    {Ok(text) : text \in VisionTexts(m)}
    \cup (IF m = "run" THEN {Raise("TimeoutError")} ELSE {})

(***************************************************************************)
(* The engine: run and run_autonomous_cycle                                *)
(***************************************************************************)
NoCycle ==
    /\ vision_calls = <<>>
    /\ vision_result = <<>>
    /\ analyzer_calls = <<>>
    /\ task_state = <<>>
    /\ completion = <<>>
    /\ results = <<>>
    /\ winner = <<>>
    /\ monitor_calls = <<>>
    /\ monitor_result = <<>>

\* The engine after __init__, before any call
Constructed ==
    /\ heap = <<EmptyWorkspace>>
    /\ engine_ws = 1
    /\ iter = 0
    /\ NoCycle
    /\ emitted = <<>>
    /\ emitted_val = <<>>
    /\ verdicts = <<>>

EngIdle ==
    /\ mode = "idle"
    /\ max_iters = 0
    /\ target_certainty = 0
    /\ initial_stimulus = <<>>
    /\ image_data = "none"
    /\ vision_init = "none"
    /\ has_vision = FALSE
    /\ modules = <<>>
    /\ pc = "idle"
    /\ context = <<>>
    /\ instruction = <<>>
    /\ Constructed

\* How the construction of the vision adapter can end in __init__: the
\* adapter is built, or its module is missing, or its constructor raises
VisionInitOutcomes == {"ok", "ImportError", "ValueError"}

\* a constructor that sets the flag before it builds the adapter
HasVisionAlways(outcome) == TRUE

\* __init__, lines 98-114: _has_vision is False unless the construction of
\* the vision adapter went through; both except clauses only log
HasVision(outcome) == outcome = "ok"

\* run_autonomous_cycle(initial_stimulus, image_data, max_iters, target_certainty)
InitAutonomous ==
    /\ mode = "autonomous"
    /\ max_iters \in 0..MaxIters
    /\ target_certainty \in TargetCertainties
    /\ initial_stimulus \in Stimuli
    /\ image_data \in {"none", "bytes"}
    /\ vision_init = "ok"
    /\ has_vision = HasVision(vision_init)
    /\ modules = RegisteredModules
    /\ pc = "loop"
    /\ context = <<>>
    /\ instruction = <<>>
    /\ Constructed

\* run(input_text, image_data, previous_context, monitor_instruction), on the
\* engine as __init__ leaves it or on one whose _modules list was emptied
InitRun ==
    /\ mode = "run"
    /\ max_iters = 0
    /\ target_certainty = 0
    /\ initial_stimulus \in Stimuli
    /\ image_data \in {"none", "empty", "bytes"}
    /\ vision_init \in VisionInitOutcomes
    /\ has_vision = HasVision(vision_init)
    /\ modules \in {RegisteredModules, <<>>}
    /\ pc = "run"
    /\ \E args \in { << <<>>, <<>> >>, << <<"contexte">>, <<"ordre">> >> } :
          /\ context = args[1]
          /\ instruction = args[2]
    /\ Constructed

\* for i in range(max_iters): the next cycle calls run, or the loop is over
LoopNext ==
    /\ pc = "loop"
    /\ pc' = IF InRange(iter, max_iters) THEN "run" ELSE "exhausted"
    /\ UNCHANGED <<pure_vars, params, heap, engine_ws, iter, context, instruction, cycle_vars,
                   emitted, emitted_val, verdicts>>

\* process_stimulus up to its first await: the vision call when there is an
\* image and a vision module
ProcessStimulus ==
    /\ pc = "run"
    /\ IF VisionRuns(image_data, has_vision)
       THEN /\ vision_calls' = << [image |-> image_data, context |-> context,
                                   monitor_instruction |-> instruction,
                                   prompt |-> VisionPrompt(context, instruction),
                                   ended |-> FALSE, reply |-> Ok(<<>>)] >>
            /\ pc' = "vision_wait"
       ELSE /\ vision_calls' = <<>>
            /\ pc' = "dispatch"
    /\ UNCHANGED <<pure_vars, params, heap, engine_ws, iter, context, instruction, vision_result,
                   analyzer_calls, task_state, completion, results, winner,
                   monitor_calls, monitor_result, emitted, emitted_val, verdicts>>

\* the vision bridge returns its text; analyze_image turns it into a result
VisionReturn ==
    /\ pc = "vision_wait"
    /\ \E b \in VisionBridgeOutcomes(mode) :
          LET outcome == AnalyzeImage(b)
          IN  /\ vision_calls' = << [vision_calls[1] EXCEPT !.ended = TRUE, !.reply = b] >>
              /\ IF outcome.raised
                 THEN /\ vision_result' = vision_result
                      /\ pc' = "raised"
                 ELSE /\ vision_result' = <<outcome.value>>
                      /\ pc' = "dispatch"
    /\ UNCHANGED <<pure_vars, params, heap, engine_ws, iter, context, instruction,
                   analyzer_calls, task_state, completion, results, winner,
                   monitor_calls, monitor_result, emitted, emitted_val, verdicts>>

\* the tasks are created: every module is called with the same arguments
Dispatch ==
    /\ pc = "dispatch"
    /\ LET full_stimulus == FullStimulus(initial_stimulus, vision_result)
       IN  analyzer_calls' =
               [k \in 1..NumModules |->
                   [stimulus |-> full_stimulus,
                    previous_context |-> context,
                    monitor_instruction |-> instruction,
                    prompt |-> BuildPrompt(ModuleNames[k], full_stimulus, context,
                                           instruction)]]
    /\ task_state' = [k \in 1..NumModules |-> Pending]
    /\ completion' = <<>>
    /\ pc' = "gather"
    /\ UNCHANGED <<pure_vars, params, heap, engine_ws, iter, context, instruction, vision_calls,
                   vision_result, results, winner, monitor_calls, monitor_result,
                   emitted, emitted_val, verdicts>>

\* an analyzer that asks the bridge a second time when its first request
\* failed, instead of returning its degraded result
TaskCompleteRetrying ==
    /\ pc = "gather"
    /\ \E k \in 1..NumModules :
          /\ task_state[k] = Pending
          /\ \E b \in ModuleBridgeOutcomes(mode, ModuleNames[k]) :
                IF b.raised /\ Len(analyzer_calls) = NumModules
                THEN /\ analyzer_calls' = Append(analyzer_calls, analyzer_calls[k])
                     /\ UNCHANGED <<task_state, completion>>
                ELSE /\ task_state' = [task_state EXCEPT
                                          ![k] = TaskOf(Analyze(ModuleNames[k], b))]
                     /\ completion' = Append(completion, k)
                     /\ UNCHANGED analyzer_calls
    /\ UNCHANGED <<pure_vars, params, heap, engine_ws, pc, iter, context, instruction, vision_calls,
                   vision_result, results, winner, monitor_calls,
                   monitor_result, emitted, emitted_val, verdicts>>

\* one module's call ends, in any order
TaskComplete ==
    /\ pc = "gather"
    /\ \E k \in 1..NumModules :
          /\ task_state[k] = Pending
          /\ \E ending \in TaskEndings(mode, k) :
                task_state' = [task_state EXCEPT ![k] = ending]
          /\ completion' = Append(completion, k)
    /\ UNCHANGED <<pure_vars, params, heap, engine_ws, pc, iter, context, instruction, vision_calls,
                   vision_result, analyzer_calls, results, winner, monitor_calls,
                   monitor_result, emitted, emitted_val, verdicts>>

\* a join that returns as soon as one call has ended (asyncio.wait with
\* FIRST_COMPLETED): the list holds the calls that have ended so far
JoinFirstCompleted ==
    /\ pc = "gather"
    /\ \E k \in 1..NumModules : task_state[k] # Pending
    /\ results' = JoinResultsByCompletion(vision_result, task_state, completion)
    /\ pc' = "arbitrate"
    /\ UNCHANGED <<pure_vars, params, heap, engine_ws, iter, context, instruction, vision_calls,
                   vision_result, analyzer_calls, task_state, completion, winner,
                   monitor_calls, monitor_result, emitted, emitted_val, verdicts>>

\* gather returns once every call has ended; process_stimulus builds its list
Join ==
    /\ pc = "gather"
    /\ \A k \in 1..NumModules : task_state[k] # Pending
    /\ results' = JoinResults(vision_result, task_state, completion)
    /\ pc' = "arbitrate"
    /\ UNCHANGED <<pure_vars, params, heap, engine_ws, iter, context, instruction, vision_calls,
                   vision_result, analyzer_calls, task_state, completion, winner,
                   monitor_calls, monitor_result, emitted, emitted_val, verdicts>>

\* run storing the text the analyzers were given, vision block included
ArbitrateStoreAugmented ==
    /\ pc = "arbitrate"
    /\ heap' = [heap EXCEPT ![engine_ws].all_results = results,
                            ![engine_ws].raw_stimulus =
                                FullStimulus(initial_stimulus, vision_result)]
    /\ winner' = <<Arbitrate(results).value>>
    /\ monitor_calls' = << [prompt |-> MonitorPrompt(results)] >>
    /\ completion' = <<>>
    /\ pc' = "monitor_wait"
    /\ UNCHANGED <<pure_vars, params, engine_ws, iter, context, instruction, vision_calls,
                   vision_result, analyzer_calls, task_state, results,
                   monitor_result, emitted, emitted_val, verdicts>>

\* run without lines 295-296: the results and the stimulus are not stored
ArbitrateNoStore ==
    /\ pc = "arbitrate"
    /\ winner' = <<Arbitrate(results).value>>
    /\ monitor_calls' = << [prompt |-> MonitorPrompt(results)] >>
    /\ completion' = <<>>
    /\ pc' = "monitor_wait"
    /\ UNCHANGED <<pure_vars, params, heap, engine_ws, iter, context, instruction,
                   vision_calls, vision_result, analyzer_calls, task_state, results,
                   monitor_result, emitted, emitted_val, verdicts>>

\* run, lines 295-303: the results and the stimulus are stored in the current
\* workspace object, the winner is chosen, the monitor is called (the order
\* in which the tasks completed is not kept once gather has returned)
ArbitrateAndCallMonitor ==
    /\ pc = "arbitrate"
    /\ heap' = [heap EXCEPT ![engine_ws].all_results = results,
                            ![engine_ws].raw_stimulus = initial_stimulus]
    /\ winner' = <<Arbitrate(results).value>>
    /\ monitor_calls' = << [prompt |-> MonitorPrompt(results)] >>
    /\ completion' = <<>>
    /\ pc' = "monitor_wait"
    /\ UNCHANGED <<pure_vars, params, engine_ws, iter, context, instruction, vision_calls,
                   vision_result, analyzer_calls, task_state, results,
                   monitor_result, emitted, emitted_val, verdicts>>

\* the monitor's call ends; analyze_coherence builds the verdict
MonitorReturn ==
    /\ pc = "monitor_wait"
    /\ \E b \in MonitorBridgeOutcomes(mode) :
          LET outcome == AnalyzeCoherence(b)
          IN  IF outcome.raised
              THEN /\ monitor_result' = monitor_result
                   /\ pc' = "raised"
              ELSE /\ monitor_result' = <<outcome.value>>
                   /\ pc' = "broadcast"
    /\ UNCHANGED <<pure_vars, params, heap, engine_ws, iter, context, instruction, vision_calls,
                   vision_result, analyzer_calls, task_state, completion, results,
                   winner, monitor_calls, emitted, emitted_val, verdicts>>

\* a loop that goes on to the next iteration without yielding the workspace
BroadcastNoYield ==
    /\ pc = "broadcast"
    /\ LET ws == BroadcastWorkspace(winner[1], monitor_result[1], heap[engine_ws])
       IN  /\ heap' = Append(heap, ws)
           /\ engine_ws' = Len(heap) + 1
    /\ verdicts' = Append(verdicts, monitor_result[1])
    /\ IF mode = "run"
       THEN /\ pc' = "returned"
            /\ emitted' = Append(emitted, Len(heap) + 1)
            /\ emitted_val' = Append(emitted_val, heap'[Len(heap) + 1])
            /\ UNCHANGED <<iter, cycle_vars>>
       ELSE /\ pc' = "loop"
            /\ iter' = iter + 1
            /\ UNCHANGED <<emitted, emitted_val>>
            /\ vision_calls' = <<>>
            /\ vision_result' = <<>>
            /\ analyzer_calls' = <<>>
            /\ task_state' = <<>>
            /\ completion' = <<>>
            /\ results' = <<>>
            /\ winner' = <<>>
            /\ monitor_calls' = <<>>
            /\ monitor_result' = <<>>
    /\ UNCHANGED <<pure_vars, params, context, instruction>>

\* broadcast builds the new workspace, run returns it, and the autonomous
\* loop yields it
Broadcast ==
    /\ pc = "broadcast"
    /\ LET ws == BroadcastWorkspace(winner[1], monitor_result[1], heap[engine_ws])
       IN  /\ heap' = Append(heap, ws)
           /\ engine_ws' = Len(heap) + 1
           /\ emitted' = Append(emitted, Len(heap) + 1)
           /\ emitted_val' = Append(emitted_val, ws)
    /\ verdicts' = Append(verdicts, monitor_result[1])
    /\ pc' = IF mode = "run" THEN "returned" ELSE "yielded"
    /\ UNCHANGED <<pure_vars, params, iter, context, instruction, cycle_vars>>

\* a loop without the `break`: it goes on to the next iteration whatever the
\* certainty of the workspace it yielded
ResumeNoBreak ==
    /\ pc = "yielded"
    /\ pc' = "loop"
    /\ iter' = iter + 1
    /\ vision_calls' = <<>>
    /\ vision_result' = <<>>
    /\ analyzer_calls' = <<>>
    /\ task_state' = <<>>
    /\ completion' = <<>>
    /\ results' = <<>>
    /\ winner' = <<>>
    /\ monitor_calls' = <<>>
    /\ monitor_result' = <<>>
    /\ UNCHANGED <<pure_vars, params, heap, engine_ws, context, instruction, emitted,
                   emitted_val, verdicts>>

\* a generator that can be resumed after it was closed
ResumeAfterClose ==
    /\ pc \in {"yielded", "closed"}
    /\ pc' = "loop"
    /\ iter' = iter + 1
    /\ vision_calls' = <<>>
    /\ vision_result' = <<>>
    /\ analyzer_calls' = <<>>
    /\ task_state' = <<>>
    /\ completion' = <<>>
    /\ results' = <<>>
    /\ winner' = <<>>
    /\ monitor_calls' = <<>>
    /\ monitor_result' = <<>>
    /\ UNCHANGED <<pure_vars, params, heap, engine_ws, context, instruction, emitted,
                   emitted_val, verdicts>>

\* the consumer asks for the next workspace: the loop tests the certainty of
\* the workspace it yielded and stops or goes on to the next iteration (the
\* locals of the finished cycle are gone)
Resume ==
    /\ pc = "yielded"
    /\ IF Converged(heap[emitted[Len(emitted)]].certainty, target_certainty)
       THEN /\ pc' = "converged"
            /\ UNCHANGED <<iter, cycle_vars>>
       ELSE /\ pc' = "loop"
            /\ iter' = iter + 1
            /\ vision_calls' = <<>>
            /\ vision_result' = <<>>
            /\ analyzer_calls' = <<>>
            /\ task_state' = <<>>
            /\ completion' = <<>>
            /\ results' = <<>>
            /\ winner' = <<>>
            /\ monitor_calls' = <<>>
            /\ monitor_result' = <<>>
    /\ UNCHANGED <<pure_vars, params, heap, engine_ws, context, instruction, emitted, emitted_val,
                   verdicts>>

\* the consumer stops iterating and the generator is closed
ConsumerStop ==
    /\ pc = "yielded"
    /\ pc' = "closed"
    /\ UNCHANGED <<pure_vars, params, heap, engine_ws, iter, context, instruction, cycle_vars,
                   emitted, emitted_val, verdicts>>

Next ==
    \/ LoopNext
    \/ ProcessStimulus
    \/ VisionReturn
    \/ Dispatch
    \/ TaskComplete
    \/ Join
    \/ ArbitrateAndCallMonitor
    \/ MonitorReturn
    \/ Broadcast
    \/ Resume
    \/ ConsumerStop

\* One invocation of run_autonomous_cycle on a fresh engine
Init == InitAutonomous /\ ArbIdle /\ SanIdle /\ AnaIdle /\ MonIdle /\ GenIdle /\ RunsIdle
Spec == Init /\ [][Next]_vars

\* One call of run on a fresh engine
NextRun ==
    \/ ProcessStimulus
    \/ VisionReturn
    \/ Dispatch
    \/ TaskComplete
    \/ Join
    \/ ArbitrateAndCallMonitor
    \/ MonitorReturn
    \/ Broadcast

InitDispatch == InitRun /\ ArbIdle /\ SanIdle /\ AnaIdle /\ MonIdle /\ GenIdle /\ RunsIdle
SpecDispatch == InitDispatch /\ [][NextRun]_vars

(***************************************************************************)
(* Specification SpecArbitrate: arbitrate applied to a bounded list        *)
(***************************************************************************)
InitArbitrate ==
    /\ arb_pc = "call"
    /\ arb_in \in SeqsUpTo(ArbResults, MaxResults)
    /\ arb_out = Ok(<<>>)
    /\ SanIdle
    /\ AnaIdle
    /\ MonIdle
    /\ GenIdle
    /\ RunsIdle
    /\ EngIdle

ArbitrateStep ==
    /\ arb_pc = "call"
    /\ arb_out' = Arbitrate(arb_in)
    /\ arb_pc' = "returned"
    /\ UNCHANGED <<arb_in, san_vars, ana_vars, mon_vars, gen_vars, ovl_vars, eng_vars>>

NextArbitrate == ArbitrateStep

SpecArbitrate == InitArbitrate /\ [][NextArbitrate]_vars

(***************************************************************************)
(* Specification SpecSanitize: the sanitizer applied to a bounded reply    *)
(***************************************************************************)
InitSanitize ==
    /\ san_pc = "call"
    /\ san_in \in RawReplies
    /\ san_fallback \in FallbackNames
    /\ san_out = Ok(<<>>)
    /\ ArbIdle
    /\ AnaIdle
    /\ MonIdle
    /\ GenIdle
    /\ RunsIdle
    /\ EngIdle

SanitizeStep ==
    /\ san_pc = "call"
    /\ san_out' = SafeParse(san_in, san_fallback)
    /\ san_pc' = "returned"
    /\ UNCHANGED <<san_in, san_fallback, arb_vars, ana_vars, mon_vars, gen_vars, ovl_vars, eng_vars>>

NextSanitize == SanitizeStep

SpecSanitize == InitSanitize /\ [][NextSanitize]_vars

(***************************************************************************)
(* Specification SpecAnalyze: analyze applied to one ending of the call    *)
(***************************************************************************)
\* The exceptions generate_response lets out (RuntimeError without a client,
\* MiniMaxBridgeError after the retries, TypeError on a reply of the wrong
\* shape) and the JSONDecodeError analyze names in its except clause
BridgeErrors == {"MiniMaxBridgeError", "RuntimeError", "TypeError", "JSONDecodeError"}

BridgeOutcomes(replies) == {Ok(r) : r \in replies} \cup {Raise(e) : e \in BridgeErrors}

InitAnalyze ==
    /\ ana_pc = "call"
    /\ ana_name \in {RegisteredModules[1], RegisteredModules[2]}
    /\ ana_in \in BridgeOutcomes(RawReplies)
    /\ ana_out = Ok(<<>>)
    /\ ArbIdle
    /\ SanIdle
    /\ MonIdle
    /\ GenIdle
    /\ RunsIdle
    /\ EngIdle

AnalyzeStep ==
    /\ ana_pc = "call"
    /\ ana_out' = Analyze(ana_name, ana_in)
    /\ ana_pc' = "returned"
    /\ UNCHANGED <<ana_name, ana_in, arb_vars, san_vars, mon_vars, gen_vars, ovl_vars, eng_vars>>

NextAnalyze == AnalyzeStep

SpecAnalyze == InitAnalyze /\ [][NextAnalyze]_vars

(***************************************************************************)
(* Specification SpecMonitor: analyze_coherence applied to one ending of   *)
(* the call                                                                *)
(***************************************************************************)
CertaintyMin == 0
CertaintyMax == 100

CertaintyStrings == { <<"9", "5">>, <<"1", "5", "0">>, <<"-", "5">>, <<"9", "5", "%">>, <<>> }

CertaintyValues ==
    {JInt(n) : n \in (CertaintyMin - IntSpan)..(CertaintyMax + IntSpan)}
    \cup {JStr(x) : x \in CertaintyStrings}
    \cup {JFloat(949), JFloat(-5), JInf, JNaN, JNull, JList, JBool(TRUE)}

\* A reply object of the monitor: each key absent or present with a value
MonitorReplyObjects ==
    {JObj(c @@ f @@ d) :
        c \in OptionalField("certainty", CertaintyValues),
        f \in OptionalField("feedback", {JStr(<<"Consensus.">>), JNull}),
        d \in OptionalField("conflict_detected", {JBool(TRUE), JBool(FALSE), JStr(<<"non">>)})}

MonitorRawReplies == MonitorReplyObjects \cup NonObjectReplies

InitMonitor ==
    /\ mon_pc = "call"
    /\ mon_in \in BridgeOutcomes(MonitorRawReplies)
    /\ mon_out = Ok(<<>>)
    /\ ArbIdle
    /\ SanIdle
    /\ AnaIdle
    /\ GenIdle
    /\ RunsIdle
    /\ EngIdle

CoherenceStep ==
    /\ mon_pc = "call"
    /\ mon_out' = AnalyzeCoherence(mon_in)
    /\ mon_pc' = "returned"
    /\ UNCHANGED <<mon_in, arb_vars, san_vars, ana_vars, gen_vars, ovl_vars, eng_vars>>

NextMonitor == CoherenceStep

SpecMonitor == InitMonitor /\ [][NextMonitor]_vars

(***************************************************************************)
(* Specification SpecBridge: one call of MiniMaxBridge.generate_response   *)
(***************************************************************************)
BackoffBase == 1
BackoffFactor == 2

\* How one posted request can end.  Retried: HTTP 429, HTTP 5xx, a network
\* error (httpx.RequestError), a body or content that is not JSON
\* (JSONDecodeError), a body without the "choices" key (KeyError).
RetryableKinds == {"http429", "http5xx", "network", "badjson", "nokey"}

\* Not retried: an HTTP 4xx other than 429; a 200 body whose "choices" list
\* is empty (IndexError) or whose content is not a text (TypeError)
AttemptKinds == RetryableKinds \cup {"ok", "http4xx", "nochoice", "nocontent"}

\* the exception a request that ended this way leaves in the try block
ExceptionOf(kind) ==
    CASE kind \in {"http429", "http5xx", "http4xx"} -> "HTTPStatusError"
      [] kind = "network" -> "RequestError"
      [] kind = "badjson" -> "JSONDecodeError"
      [] kind = "nokey" -> "KeyError"
      [] kind = "nochoice" -> "IndexError"
      [] kind = "nocontent" -> "TypeError"
      [] OTHER -> ""

\* _BACKOFF_BASE * (_BACKOFF_FACTOR ** (attempt - 1))
RECURSIVE Power(_, _)
Power(b, e) == IF e = 0 THEN 1 ELSE b * Power(b, e - 1)
BackoffDelay(attempt) == BackoffBase * Power(BackoffFactor, attempt - 1)

\* a retry policy that retries every HTTP error
RetriedAll(kind) == kind \in RetryableKinds \cup {"http4xx"}

\* the except clauses of the retry loop that fall through to the back-off
Retried(kind) == kind \in RetryableKinds

InitBridge ==
    /\ gen_pc = "call"
    /\ gen_client \in BOOLEAN
    /\ gen_max_retries \in 0..MaxRetries
    /\ gen_attempt = 0
    /\ gen_log = <<>>
    /\ gen_sleeps = <<>>
    /\ gen_out = Ok(<<>>)
    /\ ArbIdle
    /\ SanIdle
    /\ AnaIdle
    /\ MonIdle
    /\ RunsIdle
    /\ EngIdle

\* entry: without a client the call raises RuntimeError
GenCall ==
    /\ gen_pc = "call"
    /\ IF gen_client
       THEN /\ gen_attempt' = 1
            /\ gen_pc' = "loop"
            /\ UNCHANGED gen_out
       ELSE /\ gen_out' = Raise("RuntimeError")
            /\ gen_pc' = "raised"
            /\ UNCHANGED gen_attempt
    /\ UNCHANGED <<gen_client, gen_max_retries, gen_log, gen_sleeps, arb_vars, san_vars,
                   ana_vars, mon_vars, ovl_vars, eng_vars>>

\* a retry loop over range(1, max_retries + 2): one attempt too many
GenLoopOneMore ==
    /\ gen_pc = "loop"
    /\ IF gen_attempt <= gen_max_retries + 1
       THEN /\ gen_pc' = "posted"
            /\ UNCHANGED gen_out
       ELSE /\ gen_out' = Raise("MiniMaxBridgeError")
            /\ gen_pc' = "raised"
    /\ UNCHANGED <<gen_client, gen_max_retries, gen_attempt, gen_log, gen_sleeps, arb_vars,
                   san_vars, ana_vars, mon_vars, ovl_vars, eng_vars>>

\* for attempt in range(1, max_retries + 1): post the request, or give up
GenLoop ==
    /\ gen_pc = "loop"
    /\ IF gen_attempt <= gen_max_retries
       THEN /\ gen_pc' = "posted"
            /\ UNCHANGED gen_out
       ELSE /\ gen_out' = Raise("MiniMaxBridgeError")
            /\ gen_pc' = "raised"
    /\ UNCHANGED <<gen_client, gen_max_retries, gen_attempt, gen_log, gen_sleeps, arb_vars,
                   san_vars, ana_vars, mon_vars, ovl_vars, eng_vars>>

\* the request ends: the reply is returned, or an except clause runs, or the
\* exception leaves the function
GenResponse ==
    /\ gen_pc = "posted"
    /\ \E kind \in AttemptKinds :
          /\ gen_log' = Append(gen_log, kind)
          /\ IF kind = "ok"
             THEN /\ gen_out' \in {Ok(ModuleReply(<<"Linguiste">>, 7)), Ok(JList)}
                  /\ gen_pc' = "returned"
             ELSE IF Retried(kind)
             THEN /\ gen_pc' = "sleep"
                  /\ UNCHANGED gen_out
             ELSE IF kind = "http4xx"
             THEN /\ gen_out' = Raise("MiniMaxBridgeError")
                  /\ gen_pc' = "raised"
             ELSE /\ gen_out' = Raise(ExceptionOf(kind))
                  /\ gen_pc' = "raised"
    /\ UNCHANGED <<gen_client, gen_max_retries, gen_attempt, gen_sleeps, arb_vars, san_vars,
                   ana_vars, mon_vars, ovl_vars, eng_vars>>

\* the back-off wait after a failed attempt, then the next attempt
GenSleep ==
    /\ gen_pc = "sleep"
    /\ gen_sleeps' = Append(gen_sleeps, BackoffDelay(gen_attempt))
    /\ gen_attempt' = gen_attempt + 1
    /\ gen_pc' = "loop"
    /\ UNCHANGED <<gen_client, gen_max_retries, gen_log, gen_out, arb_vars, san_vars,
                   ana_vars, mon_vars, ovl_vars, eng_vars>>

NextBridge ==
    \/ GenCall
    \/ GenLoop
    \/ GenResponse
    \/ GenSleep

SpecBridge == InitBridge /\ [][NextBridge]_vars

(***************************************************************************)
(* Claims about arbitrate (checked under SpecArbitrate)                    *)
(***************************************************************************)
\* C1: for every non-empty list, arbitrate returns an element of the list
\* whose priority is the maximum of the list and, among the elements that
\* share the maximum, the one at the earliest position.
C1_ArbitrateEarliestMax ==
    (arb_pc = "returned" /\ arb_in # <<>>) =>
        /\ ~arb_out.raised
        /\ \E k \in 1..Len(arb_in) :
              /\ arb_out.value = arb_in[k]
              /\ \A j \in 1..Len(arb_in) : arb_in[j].priority <= arb_in[k].priority
              /\ \A j \in 1..(k - 1) : arb_in[j].priority < arb_in[k].priority

C1_Witness ==
    /\ arb_pc = "returned"
    /\ arb_in = << AnalysisResult(3, <<"a">>, <<"A">>),
                   AnalysisResult(7, <<"a">>, <<"B">>),
                   AnalysisResult(7, <<"a">>, <<"C">>) >>
    /\ arb_out.value.module_name = <<"B">>

\* C2: arbitrate applied to the empty list does not raise and returns the
\* sentinel result, priority 0 and module_name "Aucun".
C2_ArbitrateEmptySentinel ==
    (arb_pc = "returned" /\ arb_in = <<>>) =>
        /\ ~arb_out.raised
        /\ arb_out.value.priority = 0
        /\ arb_out.value.module_name = <<"Aucun">>

C2_Witness ==
    /\ arb_pc = "returned"
    /\ arb_in = <<>>
    /\ arb_out.value.module_name = <<"Aucun">>

(***************************************************************************)
(* Claims about the sanitizer (checked under SpecSanitize)                 *)
(***************************************************************************)
\* What the claim expects of each priority string of the model
ExpectedOfString(s) ==
    CASE s = <<"7">> -> 7
      [] s = <<"1", "2">> -> 10
      [] s = <<"-", "5">> -> 0
      [] s = <<"+", "7">> -> 7
      [] s = <<" ", "7", " ">> -> 7
      [] s = <<"1", "0">> -> 10
      [] OTHER -> 0                     \* not an integer literal

ExpectedOfNumber(n) == IF n < 0 THEN 0 ELSE IF n > 10 THEN 10 ELSE n

C10_SanitizerTotal ==
    san_pc = "returned" =>
        /\ ~san_out.raised
        /\ DOMAIN san_out.value = {"priority", "analysis", "module_name"}

(***************************************************************************)
(* Claims about the autonomous loop (checked under Spec)                   *)
(***************************************************************************)
\* C3: whenever the workspace emitted by a cycle has certainty >=
\* target_certainty (equality included), it is the last one emitted and no
\* further cycle is started; with a monitor that always reports 95 and a
\* target of 90, exactly one workspace is emitted for every max_iters >= 1.
C3_ConvergenceStopsTheLoop ==
    /\ \A k \in 1..Len(emitted_val) :
          emitted_val[k].certainty >= target_certainty =>
              /\ k = Len(emitted_val)
              /\ iter = k - 1
              /\ pc \in {"yielded", "converged", "closed"}
    /\ ( /\ pc \in {"converged", "exhausted"}
         /\ max_iters >= 1
         /\ target_certainty = 90
         /\ \A k \in 1..Len(verdicts) : verdicts[k].certainty = 95 )
       => (pc = "converged" /\ Len(emitted_val) = 1)

C3_Witness ==
    /\ pc = "converged"
    /\ max_iters = 3
    /\ target_certainty = 90
    /\ Len(emitted_val) = 1
    /\ emitted_val[1].certainty = 95

\* C4: when the monitor certainty of every cycle is below target_certainty,
\* the loop ends after exactly max_iters workspaces and the last one carries
\* the certainty of the last cycle.
C4_ExhaustionEmitsMaxIters ==
    ( /\ pc \in {"converged", "exhausted"}
      /\ \A k \in 1..Len(verdicts) : verdicts[k].certainty < target_certainty )
    => /\ pc = "exhausted"
       /\ Len(emitted_val) = max_iters
       /\ Len(verdicts) = max_iters
       /\ max_iters > 0 =>
             emitted_val[max_iters].certainty = verdicts[max_iters].certainty

C4_Witness ==
    /\ pc = "exhausted"
    /\ max_iters = 3
    /\ target_certainty = 90
    /\ Len(emitted_val) = 3
    /\ \A k \in 1..3 : verdicts[k].certainty = 50 /\ emitted_val[k].certainty = 50

\* C5: in every cycle after the first, the monitor instruction handed to the
\* vision module and to every analyzer is the feedback of the workspace the
\* previous cycle emitted; only the first cycle runs with an empty one.
C5_InstructionIsPreviousFeedback ==
    LET expected == IF iter = 0 THEN <<>> ELSE emitted_val[iter].feedback
    IN  /\ analyzer_calls # <<>> =>
              \A k \in 1..NumModules : analyzer_calls[k].monitor_instruction = expected
        /\ vision_calls # <<>> => vision_calls[1].monitor_instruction = expected

(***************************************************************************)
(* Claims about process_stimulus (checked under SpecDispatch)              *)
(***************************************************************************)
AfterJoin == {"arbitrate", "monitor_wait", "broadcast", "returned"}

\* s occurs in t as a contiguous run of atoms
IsInfix(s, t) ==
    \E a \in 0..(Len(t) - Len(s)) : SubSeq(t, a + 1, a + Len(s)) = s

\* C6: whichever modules' calls raise, the list has one entry per module
\* (plus a leading one when vision ran); a raising module's position holds
\* a degraded result (priority 0, its registered name, a diagnostic
\* analysis) and every other position holds what its module returned.
C6_DispatchIsolation ==
    pc \in AfterJoin =>
        LET off == Len(vision_result)
        IN  /\ off = (IF VisionRuns(image_data, has_vision) THEN 1 ELSE 0)
            /\ Len(results) = NumModules + off
            /\ \A k \in 1..NumModules :
                  IF task_state[k].kind = "exc"
                  THEN /\ results[off + k].priority = 0
                       /\ results[off + k].module_name = ModuleNames[k]
                       /\ IsInfix(<<task_state[k].exc>>, results[off + k].analysis)
                  ELSE /\ task_state[k].kind = "dict"
                       /\ results[off + k] = task_state[k].value

C6_Witness ==
    /\ pc = "arbitrate"
    /\ Len(vision_result) = 1
    /\ Len(results) = 5
    /\ {k \in 1..NumModules : task_state[k].kind = "exc"} = {2, 3}
    /\ results[3].priority = 0
    /\ results[2].priority = 7

\* C7: for every completion order of the modules' calls the list is the
\* same positional list: the vision result first when vision ran, then the
\* k-th module's result at the k-th following position.
C7_PositionalJoin ==
    pc \in AfterJoin =>
        LET off == Len(vision_result)
        IN  /\ off = 1 => results[1] = vision_result[1]
            /\ Len(results) = NumModules + off
            /\ \A k \in 1..NumModules :
                  IF task_state[k].kind = "dict"
                  THEN results[off + k] = task_state[k].value
                  ELSE results[off + k].module_name = ModuleNames[k]

C7_Witness ==
    /\ pc = "arbitrate"
    /\ completion = <<4, 3, 2, 1>>
    /\ Len(vision_result) = 1
    /\ results[1].module_name = VisionName
    /\ \A k \in 1..NumModules : results[1 + k].module_name = ModuleNames[k]
    /\ task_state[1].kind = "dict" /\ task_state[4].kind = "exc"

\* C8: when image bytes are supplied, the engine has a vision module and the
\* vision result has priority > 0, the stimulus handed to every module is
\* the input text followed by a block that contains the vision analysis
\* (and so does the prompt each module sends).
C8_VisionAugmentation ==
    ( /\ analyzer_calls # <<>>
      /\ image_data = "bytes" /\ has_vision
      /\ vision_result # <<>> /\ vision_result[1].priority > 0 )
    => \A k \in 1..NumModules :
          LET s == analyzer_calls[k].stimulus
              n == Len(initial_stimulus)
          IN  /\ Len(s) > n
              /\ SubSeq(s, 1, n) = initial_stimulus
              /\ IsInfix(vision_result[1].analysis, SubSeq(s, n + 1, Len(s)))
              /\ IsInfix(vision_result[1].analysis, analyzer_calls[k].prompt)

C8_Witness ==
    /\ pc = "gather"
    /\ image_data = "bytes" /\ has_vision
    /\ vision_result # <<>> /\ vision_result[1].priority = 8
    /\ vision_result[1].analysis = <<"un chat roux">>
    /\ \A k \in 1..NumModules : IsInfix(<<"un chat roux">>, analyzer_calls[k].stimulus)

\* C11: every element of every list process_stimulus returns has exactly the
\* three fields, a priority in 0..10 and a non-empty module_name, whatever
\* the services replied (a reply with an empty module_name included).
C11_ResultsWellFormed ==
    pc \in AfterJoin =>
        \A k \in 1..Len(results) :
            /\ DOMAIN results[k] = {"priority", "analysis", "module_name"}
            /\ results[k].priority \in PriorityMin..PriorityMax
            /\ results[k].module_name # <<>>

(***************************************************************************)
(* Claims about the emitted workspaces (checked under Spec)                *)
(***************************************************************************)
\* C12: a workspace is never mutated after it was emitted: whatever cycles
\* follow, every emitted workspace object still has the value it had when
\* it was emitted.
C12_EmittedNeverMutated ==
    \A k \in 1..Len(emitted) : heap[emitted[k]] = emitted_val[k]

\* C13: at the moment it is emitted, the workspace of a cycle holds as
\* all_results exactly the list process_stimulus returned in that cycle and
\* as raw_stimulus the stimulus text of that cycle, and nothing of an
\* earlier cycle.
C13_EmittedIsFullReplacement ==
    pc = "yielded" =>
        LET ws == emitted_val[Len(emitted_val)]
        IN  /\ ws = heap[emitted[Len(emitted)]]
            /\ ws.all_results = results
            /\ ws.raw_stimulus = initial_stimulus
            /\ Len(ws.all_results) = NumModules + Len(vision_result)

C13_Witness ==
    /\ pc = "yielded"
    /\ Len(emitted_val) = 2
    /\ emitted_val[1].all_results # emitted_val[2].all_results
    /\ emitted_val[2].all_results = results
    /\ emitted_val[2].all_results[1].priority = 0
    /\ emitted_val[1].all_results[1].priority = 8

(***************************************************************************)
(* Claims about broadcast and the workspace (checked under SpecDispatch)   *)
(***************************************************************************)
\* C14: broadcast builds a new workspace object whose winning_module,
\* analysis and priority are the winner's module_name, analysis and priority
\* and whose certainty and feedback are the verdict's; the workspaces that
\* exist are left as they are and no service is called.
C14_BroadcastCopies ==
    [][ (pc = "broadcast" /\ pc' # "broadcast") =>
            LET ws == heap'[engine_ws']
            IN  /\ engine_ws' \notin DOMAIN heap
                /\ \A r \in DOMAIN heap : heap'[r] = heap[r]
                /\ ws.winning_module = winner[1].module_name
                /\ ws.analysis = winner[1].analysis
                /\ ws.priority = winner[1].priority
                /\ ws.certainty = monitor_result[1].certainty
                /\ ws.feedback = monitor_result[1].feedback
                /\ emitted' = Append(emitted, engine_ws')
                /\ <<vision_calls, analyzer_calls, monitor_calls>>'
                       = <<vision_calls, analyzer_calls, monitor_calls>> ]_vars

C14_Witness ==
    /\ pc = "returned"
    /\ engine_ws = 2
    /\ winner[1].module_name = <<"Linguiste">>
    /\ heap[2].winning_module = <<"Linguiste">>
    /\ heap[2].analysis = <<"analyse de ", "Linguiste">>
    /\ heap[2].priority = 7
    /\ heap[2].certainty = 95
    /\ heap[2].feedback = <<"Consensus parfait.">>

\* C15: for every workspace object that exists, is_conscious is true exactly
\* when its priority is above 0 and its winning_module is not the empty
\* text; the workspace returned when there was nothing to arbitrate (module
\* "Aucun", priority 0) is not conscious.
C15_ConsciousIffIgnited ==
    /\ \A r \in DOMAIN heap :
          IsConscious(heap[r]) <=> (heap[r].priority > 0 /\ Len(heap[r].winning_module) > 0)
    /\ (pc = "returned" /\ results = <<>>) =>
          /\ heap[engine_ws].winning_module = <<"Aucun">>
          /\ heap[engine_ws].priority = 0
          /\ ~IsConscious(heap[engine_ws])

C15_Witness ==
    /\ pc = "returned"
    /\ modules = <<>>
    /\ results = <<>>
    /\ heap[engine_ws].winning_module = <<"Aucun">>
    /\ ~IsConscious(heap[engine_ws])
    /\ ~IsConscious(heap[1])

\* the k-th module's call failed: it raised, or analyze returned the dict
\* of one of its except clauses
CallFailed(k) ==
    \/ task_state[k].kind = "exc"
    \/ /\ task_state[k].kind = "dict"
       /\ task_state[k].value.analysis[1] \in {"Erreur de parsing : ", "Erreur inattendue : "}

\* C16 as stated: with no module and no vision, or when every module's call
\* failed, run raises nothing and returns a workspace of priority 0 that is
\* not conscious.
C16_TotalFailureNoIgnition ==
    /\ pc # "raised"
    /\ ( /\ pc = "returned"
         /\ \/ NumModules = 0 /\ ~VisionRuns(image_data, has_vision)
            \/ NumModules > 0 /\ \A k \in 1..NumModules : CallFailed(k) )
       => /\ heap[engine_ws].priority = 0
          /\ ~IsConscious(heap[engine_ws])

\* C16 amended: with no module and no vision, or when every module's call
\* failed and the vision call, if there was one, produced priority 0, run
\* raises nothing and returns a workspace of priority 0 that is not
\* conscious; a vision result of priority above 0 wins the arbitration.
C16_TotalFailureNoIgnitionAmended ==
    /\ pc # "raised"
    /\ ( /\ pc = "returned"
         /\ \A k \in 1..NumModules : CallFailed(k) )
       => IF vision_result # <<>> /\ vision_result[1].priority > 0
          THEN /\ heap[engine_ws].priority = vision_result[1].priority
               /\ heap[engine_ws].winning_module = vision_result[1].module_name
          ELSE /\ heap[engine_ws].priority = 0
               /\ ~IsConscious(heap[engine_ws])

C16_Witness ==
    /\ pc = "returned"
    /\ NumModules = 4
    /\ \A k \in 1..NumModules : CallFailed(k)
    /\ task_state[1].kind = "exc" /\ task_state[2].kind = "dict"
    /\ vision_result # <<>> /\ vision_result[1].priority = 0
    /\ heap[engine_ws].priority = 0
    /\ heap[engine_ws].winning_module = VisionName

(***************************************************************************)
(* Claims about failures (SpecDispatch, SpecAnalyze, SpecMonitor)          *)
(***************************************************************************)
IsText(x) == x \in Seq(STRING)

\* every field of the workspace is there with a value of its type
WellFormedWorkspace(ws) ==
    /\ DOMAIN ws = {"winning_module", "analysis", "priority", "certainty", "feedback",
                    "all_results", "raw_stimulus"}
    /\ IsText(ws.winning_module) /\ IsText(ws.analysis) /\ IsText(ws.feedback)
    /\ IsText(ws.raw_stimulus)
    /\ ws.priority \in Int /\ ws.certainty \in Int
    /\ \A k \in 1..Len(ws.all_results) :
          /\ DOMAIN ws.all_results[k] = {"priority", "analysis", "module_name"}
          /\ ws.all_results[k].priority \in Int
          /\ IsText(ws.all_results[k].analysis)
          /\ IsText(ws.all_results[k].module_name)

\* C17: whatever way the service calls of a cycle end (the vision call, any
\* module's call, the monitor's call; an error, a malformed reply, an
\* unexpected exception), no exception leaves run, and the workspace run
\* returns is well formed and holds one result per call made.
C17_RunAbsorbsFailures ==
    /\ pc # "raised"
    /\ pc = "returned" =>
          /\ WellFormedWorkspace(heap[engine_ws])
          /\ emitted = <<engine_ws>>
          /\ heap[engine_ws].all_results = results
          /\ Len(results) = NumModules + Len(vision_calls)

C17_Witness ==
    /\ pc = "returned"
    /\ Len(results) = 5
    /\ results[1].analysis[1] = "Échec vision : "
    /\ task_state[1].kind = "exc"
    /\ results[3].analysis = <<"Erreur inattendue : ", "AttributeError">>
    /\ results[4].analysis = <<"Erreur inattendue : ", "MiniMaxBridgeError">>
    /\ \A k \in 1..NumModules : CallFailed(k)
    /\ heap[engine_ws].certainty = 0
    /\ heap[engine_ws].feedback = <<"Erreur: ", "MiniMaxBridgeError">>
    /\ WellFormedWorkspace(heap[engine_ws])

\* the call of analyze in progress failed: generate_response raised, or the
\* reply could not be turned into a result
AnalyzeFailure ==
    IF ana_in.raised THEN ana_in ELSE SafeParse(ana_in.value, ana_name)

\* C18: analyze never raises; when the generation call raised or the reply
\* could not be turned into a result, it returns a result of priority 0
\* whose module_name is the module's own name and whose analysis carries
\* the description of the failure; otherwise it returns the sanitized reply.
C18_AnalyzeNeverRaises ==
    ana_pc = "returned" =>
        /\ ~ana_out.raised
        /\ DOMAIN ana_out.value = {"priority", "analysis", "module_name"}
        /\ IF AnalyzeFailure.raised
           THEN /\ ana_out.value.priority = 0
                /\ ana_out.value.module_name = ana_name
                /\ IsInfix(<<AnalyzeFailure.exc>>, ana_out.value.analysis)
                /\ ana_out.value.analysis[1] \in
                       {"Erreur de parsing : ", "Erreur inattendue : "}
           ELSE ana_out.value = AnalyzeFailure.value

C18_Witness ==
    /\ ana_pc = "returned"
    /\ ana_in = Raise("MiniMaxBridgeError")
    /\ ana_name = <<"Linguiste">>
    /\ ana_out =
          Ok(AnalysisResult(0, <<"Erreur inattendue : ", "MiniMaxBridgeError">>,
                            <<"Linguiste">>))

\* the certainty of the reply cannot be converted to an integer
CertaintyUnusable(reply) ==
    /\ "certainty" \in DOMAIN reply.f
    /\ \/ reply.f.certainty.t \in {"inf", "nan", "null", "list", "obj"}
       \/ /\ reply.f.certainty.t = "str"
          /\ ParseInt(reply.f.certainty.s).raised

\* the call of analyze_coherence in progress failed: generate_response
\* raised, the reply is not an object, or its certainty is unusable
CoherenceFailure ==
    \/ mon_in.raised
    \/ mon_in.value.t # "obj"
    \/ CertaintyUnusable(mon_in.value)

\* C19: analyze_coherence never raises; on any failure of the generation
\* call or of the conversion of its reply it returns a verdict with every
\* field present, certainty 0 and conflict_detected true.
C19_MonitorNeverRaises ==
    mon_pc = "returned" =>
        /\ ~mon_out.raised
        /\ DOMAIN mon_out.value = {"module_name", "priority", "analysis", "certainty",
                                   "feedback", "conflict_detected"}
        /\ mon_out.value.conflict_detected \in BOOLEAN
        /\ IsText(mon_out.value.feedback)
        /\ CoherenceFailure =>
              /\ mon_out.value.certainty = 0
              /\ mon_out.value.conflict_detected = TRUE
              /\ mon_out.value.feedback[1] = "Erreur: "

C19_Witness ==
    /\ mon_pc = "returned"
    /\ ~mon_in.raised
    /\ mon_in.value.t = "obj"
    /\ "certainty" \in DOMAIN mon_in.value.f
    /\ mon_in.value.f.certainty = JStr(<<"9", "5", "%">>)
    /\ mon_out.value.certainty = 0
    /\ mon_out.value.conflict_detected = TRUE
    /\ mon_out.value.feedback = <<"Erreur: ", "ValueError">>

\* C20: the certainty of every verdict analyze_coherence returns is an
\* integer in 0..100, whatever certainty the reply carries.
C20_CertaintyInRange ==
    mon_pc = "returned" =>
        /\ ~mon_out.raised
        /\ mon_out.value.certainty \in CertaintyMin..CertaintyMax

\* C21: a monitor reply that is an object with a field missing (certainty,
\* feedback or conflict_detected) gives the degraded verdict: certainty 0
\* and conflict_detected true.
C21_MissingFieldsDegrade ==
    ( /\ mon_pc = "returned"
      /\ ~mon_in.raised
      /\ mon_in.value.t = "obj"
      /\ {"certainty", "feedback", "conflict_detected"} \ DOMAIN mon_in.value.f # {} )
    => /\ ~mon_out.raised
       /\ mon_out.value.certainty = 0
       /\ mon_out.value.conflict_detected = TRUE

(***************************************************************************)
(* Claims about the autonomous loop (checked under Spec)                   *)
(***************************************************************************)
\* the verdict is the one analyze_coherence builds in its except clause
MonitorFailed(verdict) == verdict.feedback # <<>> /\ verdict.feedback[1] = "Erreur: "

\* C22: when the monitor's call failed in cycle i, target_certainty is above
\* 0 and i < max_iters - 1, the loop does not stop on the workspace of cycle
\* i: when the consumer asks for the next workspace, cycle i+1 starts.
C22_MonitorFailureContinues ==
    [][ /\ ( /\ pc = "yielded"
             /\ pc' \notin {"yielded", "closed"}
             /\ MonitorFailed(verdicts[iter + 1])
             /\ target_certainty > 0 )
           => (pc' = "loop" /\ iter' = iter + 1 /\ emitted' = emitted)
        /\ ( /\ pc = "loop"
             /\ pc' # "loop"
             /\ iter > 0
             /\ MonitorFailed(verdicts[iter])
             /\ iter < max_iters )
           => (pc' = "run" /\ iter' = iter) ]_vars

C22_Witness ==
    /\ pc = "vision_wait"
    /\ iter = 1
    /\ max_iters = 2
    /\ target_certainty = 50
    /\ MonitorFailed(verdicts[1])
    /\ emitted_val[1].certainty = 0
    /\ Len(vision_calls) = 1

Finished == {"converged", "exhausted", "closed"}

\* C23 as stated: for every max_iters and target_certainty, one invocation
\* emits at most max_iters workspaces and, once it is over, at least 1.
C23_EmittedCountInRange ==
    /\ Len(emitted) <= max_iters
    /\ pc \in Finished => Len(emitted) >= 1

\* C23 amended: one invocation emits at most max_iters workspaces; once it
\* is over it has emitted at least 1 when max_iters >= 1, and none when
\* max_iters is 0.
C23_EmittedCountInRangeAmended ==
    /\ Len(emitted) <= max_iters
    /\ Len(emitted) \in {iter, iter + 1}
    /\ pc \in Finished =>
          IF max_iters >= 1
          THEN Len(emitted) >= 1
          ELSE pc = "exhausted" /\ Len(emitted) = 0 /\ engine_ws = 1

C23_Witness ==
    /\ pc = "exhausted"
    /\ max_iters = 0
    /\ Len(emitted) = 0
    /\ vision_calls = <<>> /\ analyzer_calls = <<>> /\ monitor_calls = <<>>

InCycle == {"run", "vision_wait", "dispatch", "gather", "arbitrate", "monitor_wait",
            "broadcast"}

\* C24: the cycles of one autonomous run are sequential: while cycle i is
\* in progress (from its first service call to its broadcast) the workspaces
\* of all the cycles before it have been built and emitted, the engine's
\* current workspace is the one of cycle i-1, and between two cycles no
\* call is in flight.
C24_CyclesSequential ==
    /\ pc \in InCycle =>
          /\ Len(emitted) = iter
          /\ Len(verdicts) = iter
          /\ Len(heap) = iter + 1
          /\ iter > 0 => engine_ws = emitted[iter]
    /\ pc = "loop" =>
          /\ vision_calls = <<>> /\ analyzer_calls = <<>> /\ monitor_calls = <<>>
          /\ Len(emitted) = iter

C24_Witness ==
    /\ pc = "gather"
    /\ iter = 2
    /\ Len(emitted) = 2
    /\ engine_ws = emitted[2]
    /\ Len(vision_calls) = 1
    /\ Len(analyzer_calls) = 4
    /\ \E k \in 1..NumModules : task_state[k] = Pending

\* C25: once the consumer has stopped after the workspace of cycle i, the
\* generator takes no further step: no call, no broadcast, and the engine's
\* current workspace stays the one of cycle i.
C25_ConsumerStopEndsTheRun ==
    [][ /\ pc = "closed" => UNCHANGED vars
        /\ (pc = "yielded" /\ pc' = "closed") =>
              /\ engine_ws = emitted[Len(emitted)]
              /\ Len(emitted) = iter + 1
              /\ UNCHANGED <<heap, engine_ws, emitted, iter, cycle_vars>> ]_vars

C25_Witness ==
    /\ pc = "closed"
    /\ max_iters = 3
    /\ target_certainty = 90
    /\ iter = 0
    /\ Len(emitted) = 1
    /\ emitted_val[1].certainty = 50
    /\ engine_ws = emitted[1]
    /\ Len(heap) = 2

(***************************************************************************)
(* Claims about generate_response (checked under SpecBridge)               *)
(***************************************************************************)
\* C26: whenever generate_response fails, the error is MiniMaxBridgeError
\* and max_retries requests have been made before it.
C26_FailsOnlyAfterFullBudget ==
    gen_pc = "raised" =>
        /\ gen_out.exc = "MiniMaxBridgeError"
        /\ Len(gen_log) = gen_max_retries

(***************************************************************************)
(* Claims about the steps of one cycle (checked under SpecDispatch)        *)
(***************************************************************************)
\* no brace-delimited object is spelled in the text
NoObjectIn(text) == ~\E a \in VisionPayloads : IsInfix(<<"{", a, "}">>, text)

\* the vision call of the cycle has ended and the vision service failed:
\* the bridge raised, or returned a text with no object in it
VisionFailed ==
    /\ vision_calls # <<>>
    /\ vision_calls[1].ended
    /\ \/ vision_calls[1].reply.raised
       \/ NoObjectIn(vision_calls[1].reply.value)

\* C27: when the vision service fails or returns a text with no parsable
\* object, analyze_image raises nothing and returns a degraded result
\* (priority 0, module_name "Vision", a diagnostic analysis); that result is
\* the first element of the list, and every module receives exactly the
\* original stimulus, with no vision block.
C27_VisionFailureDegrades ==
    VisionFailed =>
        /\ pc # "raised"
        /\ vision_result # <<>>
        /\ vision_result[1].priority = 0
        /\ vision_result[1].module_name = VisionName
        /\ vision_result[1].analysis[1] = "Échec vision : "
        /\ Len(vision_result[1].analysis) = 2
        /\ analyzer_calls # <<>> =>
              \A k \in 1..NumModules :
                  /\ analyzer_calls[k].stimulus = initial_stimulus
                  /\ ~IsInfix(<<"<nl>[CONTEXTE VISUEL DU MODULE VISION] : ">>,
                              analyzer_calls[k].prompt)
        /\ pc \in AfterJoin =>
              /\ Len(results) = NumModules + 1
              /\ results[1] = vision_result[1]

C27_Witness ==
    /\ pc = "arbitrate"
    /\ VisionFailed
    /\ vision_calls[1].reply = Ok(<<"Je vois ", "{", "un chat", "}">>)
    /\ results[1] = AnalysisResult(0, <<"Échec vision : ", "JSONDecodeError">>, VisionName)
    /\ Len(results) = 5
    /\ \A k \in 1..NumModules : analyzer_calls[k].stimulus = initial_stimulus

\* the line of the monitor's summary for one result
LineOf(r) ==
    <<"- ">> \o r.module_name \o <<": Priorité ">> \o IntDigits(r.priority)
    \o <<"/10. Analyse: ">> \o r.analysis \o <<"<nl>">>

\* the request of the monitor summarises exactly the list rs, in order
RECURSIVE SummarisesFrom(_, _, _)
SummarisesFrom(prompt, at, rs) ==
    IF rs = <<>>
    THEN at = Len(prompt)
    ELSE LET line == LineOf(Head(rs))
         IN  /\ at + Len(line) <= Len(prompt)
             /\ SubSeq(prompt, at, at + Len(line) - 1) = line
             /\ SummarisesFrom(prompt, at + Len(line), Tail(rs))

\* the steps of a cycle, in the order run takes them
CycleSteps ==
    { <<"run", "vision_wait">>, <<"run", "dispatch">>, <<"vision_wait", "dispatch">>,
      <<"dispatch", "gather">>, <<"gather", "gather">>, <<"gather", "arbitrate">>,
      <<"arbitrate", "monitor_wait">>, <<"monitor_wait", "broadcast">>,
      <<"broadcast", "returned">> }

\* what has happened so far, by the place the cycle is at
CycleProgress ==
    /\ pc \in {"run", "vision_wait", "dispatch"} =>
          analyzer_calls = <<>> /\ results = <<>>
    /\ pc \in {"run", "vision_wait", "dispatch", "gather", "arbitrate"} =>
          winner = <<>> /\ monitor_calls = <<>> /\ monitor_result = <<>>
    /\ pc \in {"run", "vision_wait", "dispatch", "gather", "arbitrate", "monitor_wait",
               "broadcast"} =>
          Len(heap) = 1 /\ emitted = <<>>
    /\ pc \in {"gather", "arbitrate", "monitor_wait", "broadcast", "returned"} =>
          Len(analyzer_calls) = NumModules
    /\ pc \in {"arbitrate", "monitor_wait", "broadcast", "returned"} =>
          Len(results) = NumModules + Len(vision_result)
    /\ pc \in {"monitor_wait", "broadcast", "returned"} =>
          /\ winner = <<Arbitrate(results).value>>
          /\ Len(monitor_calls) = 1
          /\ SummarisesFrom(monitor_calls[1].prompt, 3, results)
    /\ pc = "monitor_wait" => monitor_result = <<>>
    /\ pc \in {"broadcast", "returned"} => Len(monitor_result) = 1
    /\ pc = "returned" => Len(heap) = 2 /\ emitted = <<2>>

\* C28: within one cycle the steps are taken in the order dispatch,
\* arbitrate, monitor, broadcast, each once, and the monitor is asked about
\* exactly the list that was arbitrated (the whole list process_stimulus
\* returned, the vision entry included, empty or all degraded as it may be).
C28_StepOrder ==
    [][ /\ <<pc, pc'>> \in CycleSteps
        /\ CycleProgress
        /\ pc' = "returned" =>
              /\ Len(heap') = 2 /\ emitted' = <<2>>
              /\ UNCHANGED <<results, winner, monitor_calls, monitor_result>> ]_vars

C28_Witness ==
    /\ pc = "returned"
    /\ Len(results) = 5
    /\ \A k \in 1..Len(results) : results[k].priority = 0
    /\ SummarisesFrom(monitor_calls[1].prompt, 3, results)
    /\ winner = <<results[1]>>
    /\ IsInfix(LineOf(results[5]), monitor_calls[1].prompt)

\* some fanned-out analyzer call has neither returned nor failed yet
SomeCallPending == \E k \in 1..Len(task_state) : task_state[k] = Pending

\* C29: arbitration does not start while an analyzer call is still pending:
\* process_stimulus returns (the list exists, the cycle is at arbitration or
\* later) only after the call of every registered analyzer has returned or
\* failed; while a call is pending there is no list and no winner.
C29_ArbitrationAfterAllCalls ==
    /\ SomeCallPending => pc = "gather" /\ results = <<>> /\ winner = <<>>
    /\ pc \in AfterJoin =>
          /\ Len(analyzer_calls) = NumModules
          /\ Len(task_state) = NumModules
          /\ \A k \in 1..NumModules : task_state[k].kind \in {"dict", "exc"}
          /\ Len(results) = NumModules + Len(vision_result)

\* arbitration is about to start after four calls that ended out of
\* registration order, one of them with an exception
C29_Witness ==
    /\ pc = "arbitrate"
    /\ NumModules = 4
    /\ completion = <<4, 2, 3, 1>>
    /\ task_state[4].kind = "exc"
    /\ task_state[1].kind = "dict"
    /\ results[NumModules + Len(vision_result)].priority = 0

\* image bytes were handed to the run and the engine has a vision agent
VisionExpected == image_data = "bytes" /\ has_vision

\* C30: the vision agent is invoked exactly when image bytes are supplied and
\* a vision agent is configured, at most once, and its call has ended before
\* any analyzer call starts; without an image or without a vision agent no
\* vision call is made and the list has no vision entry.
C30_VisionBeforeAnalyzers ==
    /\ Len(vision_calls) <= 1
    /\ pc # "run" => (vision_calls # <<>> <=> VisionExpected)
    /\ pc = "vision_wait" =>
          /\ VisionExpected
          /\ ~vision_calls[1].ended
          /\ analyzer_calls = <<>>
          /\ \A k \in 1..Len(task_state) : task_state[k] = Pending
    /\ pc \in {"dispatch", "gather"} \cup AfterJoin =>
          IF VisionExpected
          THEN /\ vision_calls[1].ended
               /\ Len(vision_result) = 1
               /\ pc \in AfterJoin =>
                     /\ Len(results) = NumModules + 1
                     /\ results[1] = vision_result[1]
                     /\ results[1].module_name = VisionName
          ELSE /\ vision_calls = <<>>
               /\ vision_result = <<>>
               /\ pc \in AfterJoin =>
                     /\ Len(results) = NumModules
                     /\ \A k \in 1..Len(results) :
                           /\ results[k] = JoinEntry(task_state[k], ModuleNames[k])
                           /\ results[k].module_name # VisionName

\* the analyzers were called after a vision call that had ended
C30_Witness ==
    /\ pc = "gather"
    /\ VisionExpected
    /\ vision_calls[1].ended
    /\ Len(analyzer_calls) = 4
    /\ \E k \in 1..NumModules : task_state[k] = Pending

\* the analyzers were called with empty image bytes and a vision agent:
\* no vision call was made
C30_WitnessNoImage ==
    /\ pc = "arbitrate"
    /\ image_data = "empty"
    /\ has_vision
    /\ vision_calls = <<>>
    /\ Len(results) = 4

(***************************************************************************)
(* Claims about the shared workspace, the retries and the termination      *)
(***************************************************************************)
\* C31: the engine's current workspace is written only by broadcast: every
\* other step of run (the vision call, the dispatch, the join, arbitration,
\* the monitor's call) leaves the reference and every field of the object
\* it points to as they were.
C31_OnlyBroadcastWrites ==
    [][ pc # "broadcast" =>
           /\ engine_ws' = engine_ws
           /\ heap'[engine_ws] = heap[engine_ws] ]_vars

\* the bridge requests of one cycle are the entries of analyzer_calls,
\* monitor_calls and vision_calls: each holds the prompt of one request

\* C32: the core never retries: in one cycle there is exactly one bridge
\* request per registered analyzer (its own prompt) and, once the monitor is
\* asked, exactly one monitor request, whether the requests succeed or fail;
\* the vision bridge gets at most one request.
C32_CoreNeverRetries ==
    /\ Len(vision_calls) <= 1
    /\ Len(monitor_calls) <= 1
    /\ Len(analyzer_calls) \in {0, NumModules}
    /\ pc \in {"gather"} \cup AfterJoin =>
          /\ Len(analyzer_calls) = NumModules
          /\ \A k \in 1..NumModules :
                analyzer_calls[k].prompt =
                    BuildPrompt(ModuleNames[k], analyzer_calls[k].stimulus, context,
                                instruction)
    /\ pc \in {"monitor_wait", "broadcast", "returned"} =>
          /\ Len(monitor_calls) = 1
          /\ monitor_calls[1].prompt = MonitorPrompt(results)

\* a cycle that ended although the vision request, an analyzer's request and
\* the monitor's request all failed
C32_Witness ==
    /\ pc = "returned"
    /\ NumModules = 4
    /\ VisionFailed
    /\ \E k \in 1..NumModules :
          task_state[k] = TaskDict(Degraded("Erreur inattendue : ", "MiniMaxBridgeError",
                                            ModuleNames[k]))
    /\ MonitorFailed(monitor_result[1])
    /\ Len(analyzer_calls) = 4
    /\ Len(monitor_calls) = 1
    /\ Len(vision_calls) = 1

\* the attempts made so far all failed in a way the loop retries
AllRetryable == \A k \in 1..Len(gen_log) : gen_log[k] \in RetryableKinds

\* C33: generate_response makes at most max_retries request attempts; it
\* returns the parsed reply at the first attempt that succeeds, which is then
\* the last attempt of the call; and when max_retries attempts have all
\* failed in a retried way no further request is posted and the call ends
\* with MiniMaxBridgeError.
C33_AtMostMaxRetriesAttempts ==
    /\ Len(gen_log) <= gen_max_retries
    /\ \A k \in 1..Len(gen_log) :
          gen_log[k] = "ok" => k = Len(gen_log) /\ gen_pc = "returned"
    /\ gen_pc = "returned" =>
          /\ gen_log # <<>>
          /\ gen_log[Len(gen_log)] = "ok"
          /\ \A k \in 1..(Len(gen_log) - 1) : gen_log[k] \in RetryableKinds
          /\ ~gen_out.raised
    /\ (gen_client /\ Len(gen_log) = gen_max_retries /\ AllRetryable) =>
          /\ gen_pc \in {"call", "loop", "sleep", "raised"}
          /\ gen_pc = "raised" => gen_out = Raise("MiniMaxBridgeError")

\* five attempts, all failed in a retried way, and the call has raised
C33_Witness ==
    /\ gen_pc = "raised"
    /\ gen_max_retries = 5
    /\ Len(gen_log) = 5
    /\ AllRetryable
    /\ gen_out = Raise("MiniMaxBridgeError")

\* a call that returned at its third attempt
C33_WitnessSuccess ==
    /\ gen_pc = "returned"
    /\ gen_max_retries = 5
    /\ gen_log = <<"http5xx", "network", "ok">>

\* C34: a failed attempt is retried unless it is an HTTP 4xx other than 429:
\* after any other failure, while attempts remain, the call goes on to
\* another attempt; a 4xx other than 429 ends the call with
\* MiniMaxBridgeError at once, with no further attempt and no back-off wait
\* after it.
C34_RetriedUnlessClientError ==
    \A k \in 1..Len(gen_log) :
        /\ gen_log[k] = "http4xx" =>
              /\ k = Len(gen_log)
              /\ gen_pc = "raised"
              /\ gen_out = Raise("MiniMaxBridgeError")
              /\ Len(gen_sleeps) = k - 1
        /\ (gen_log[k] \notin {"ok", "http4xx"} /\ k < gen_max_retries) =>
              \/ k < Len(gen_log)
              \/ gen_pc \in {"sleep", "loop", "posted"}

\* the terminal states of the loop
Terminal == {"converged", "exhausted"}

\* what holds of the cycles whatever way the invocation ends: at most
\* max_iters cycles are started, Converged is reached on a workspace whose
\* certainty reaches the target, Exhausted after max_iters cycles that did
\* not, and in a terminal state nothing more can happen
BoundedCycles ==
    /\ pc \in InCycle => iter < max_iters
    /\ Len(emitted) <= max_iters
    /\ pc = "converged" =>
          /\ emitted # <<>>
          /\ emitted_val[Len(emitted)].certainty >= target_certainty
    /\ pc = "exhausted" =>
          /\ Len(emitted) = max_iters
          /\ \A k \in 1..Len(emitted) : emitted_val[k].certainty < target_certainty
    /\ pc \in Terminal => ~ENABLED Next

\* C35 as stated: every invocation of run_autonomous_cycle ends in a
\* terminal state (Converged or Exhausted) after at most max_iters cycles:
\* whenever the invocation can take no further step it is in one of the two,
\* and once it is there no cycle is started again.
C35_EndsConvergedOrExhausted ==
    /\ BoundedCycles
    /\ ~ENABLED Next => pc \in Terminal

\* C35 amended: an invocation that can take no further step is Converged,
\* Exhausted or was closed by its consumer after an emitted workspace, after
\* at most max_iters cycles; while it is in none of the three a step is
\* possible: a service call's end, a step of the loop, or the consumer's.
C35_EndsConvergedExhaustedOrClosed ==
    /\ BoundedCycles
    /\ ~ENABLED Next => pc \in Finished
    /\ pc \in Finished => ~ENABLED Next
    /\ pc = "closed" => emitted # <<>>
    /\ (ENABLED Next /\ pc # "yielded") => ENABLED (Next /\ pc' # "closed")

\* the loop is exhausted after three cycles whose monitor call failed
C35_Witness ==
    /\ pc = "exhausted"
    /\ max_iters = 3
    /\ Len(emitted) = 3
    /\ \A k \in 1..3 : MonitorFailed(verdicts[k])

\* the consumer stopped after the first of three cycles
C35_WitnessClosed ==
    /\ pc = "closed"
    /\ max_iters = 3
    /\ Len(emitted) = 1

\* the atoms of a text
AtomsOf(text) == {text[k] : k \in 1..Len(text)}

\* the request is the fixed frame around one line per result, in list
\* order, and nothing else: it is determined by the list
RequestOf(prompt, rs) ==
    /\ Len(prompt) >= 3
    /\ prompt[1] = "Voici les analyses produites par le système :<nl>"
    /\ prompt[2] = "RÉSULTATS DES MODULES :<nl>"
    /\ SummarisesFrom(prompt, 3, rs)
    /\ prompt[Len(prompt)] = "Évalue la cohérence. Réponds au format JSON strict."

\* C36: the monitor does not see the stimulus: in every run, whatever the
\* stimulus text, the image, the previous context and the monitor
\* instruction, the request sent to the monitor is the one text determined
\* by the ordered result list, so that equal lists give identical requests.
C36_MonitorRequestFromListAlone ==
    \A k \in 1..Len(monitor_calls) :
        /\ DOMAIN monitor_calls[k] = {"prompt"}
        /\ RequestOf(monitor_calls[k].prompt, results)

\* a monitor request of a run with an image, a context and an instruction,
\* over a list with a vision entry, that holds none of their texts
C36_Witness ==
    /\ pc = "monitor_wait"
    /\ image_data = "bytes"
    /\ context # <<>>
    /\ instruction # <<>>
    /\ initial_stimulus # Stimulus
    /\ Len(results) = 5
    /\ analyzer_calls[1].stimulus # initial_stimulus
    /\ AtomsOf(monitor_calls[1].prompt)
         \cap (AtomsOf(initial_stimulus) \cup AtomsOf(context)
               \cup AtomsOf(instruction)) = {}

\* text begins with the given text
StartsWith(text, start) ==
    /\ Len(start) <= Len(text)
    /\ SubSeq(text, 1, Len(start)) = start

\* C37: every cycle of one autonomous run dispatches the initial stimulus
\* text and the image the run was started with: the vision call of each cycle
\* gets that image, the analyzers' text is the initial text (with, at most,
\* the vision block after it), and raw_stimulus of every emitted workspace is
\* the initial text, when it is emitted and ever after.
C37_SameStimulusEveryCycle ==
    /\ \A k \in 1..Len(vision_calls) : vision_calls[k].image = image_data
    /\ pc \in InCycle \ {"run"} => (vision_calls # <<>> <=> image_data = "bytes")
    /\ \A k \in 1..Len(analyzer_calls) :
          /\ StartsWith(analyzer_calls[k].stimulus, initial_stimulus)
          /\ vision_result = <<>> => analyzer_calls[k].stimulus = initial_stimulus
    /\ \A k \in 1..Len(emitted) :
          /\ emitted_val[k].raw_stimulus = initial_stimulus
          /\ heap[emitted[k]].raw_stimulus = initial_stimulus

\* the second workspace of a run was emitted after a cycle whose analyzers
\* were given the stimulus with the vision block
C37_Witness ==
    /\ pc = "yielded"
    /\ Len(emitted) = 2
    /\ image_data = "bytes"
    /\ analyzer_calls[1].stimulus # initial_stimulus
    /\ heap[emitted[1]].raw_stimulus = initial_stimulus
    /\ heap[emitted[2]].raw_stimulus = initial_stimulus
    /\ initial_stimulus # Stimulus

\* the workspace names as its winner an entry of its own all_results, and
\* no entry has a higher priority
WinnerAmongResults(ws) ==
    ws.all_results # <<>> =>
        /\ \E j \in 1..Len(ws.all_results) :
              /\ ws.all_results[j].module_name = ws.winning_module
              /\ ws.all_results[j].analysis = ws.analysis
              /\ ws.all_results[j].priority = ws.priority
        /\ \A j \in 1..Len(ws.all_results) : ws.priority >= ws.all_results[j].priority

\* C38: with the cycles run one at a time on the engine, every workspace
\* that was returned has, if its all_results is not empty, its winner among
\* its all_results and no entry of a higher priority.
C38_WinnerAmongResults ==
    \A k \in 1..Len(emitted) : WinnerAmongResults(heap[emitted[k]])

\* the same at the moment the workspace is returned
WinnerAmongResultsAtReturn ==
    \A k \in 1..Len(emitted) : WinnerAmongResults(emitted_val[k])

(***************************************************************************)
(* Specification SpecOverlap: two calls of run in flight on one engine     *)
(***************************************************************************)
Invocations == {"A", "B"}

\* the list process_stimulus returns to an invocation: every registered
\* module at the same priority, or with a vision entry in front
AnalyzerList(p) ==
    [k \in 1..Len(RegisteredModules) |->
        AnalysisResult(p, <<"analyse de ", RegisteredModules[k][1]>>, RegisteredModules[k])]

OverlapLists ==
    {AnalyzerList(7), AnalyzerList(3),
     <<AnalysisResult(8, <<"un chat roux">>, VisionName)>> \o AnalyzerList(7)}

\* the verdicts analyze_coherence can return to an invocation
OverlapVerdicts ==
    {AnalyzeCoherence(b).value : b \in MonitorBridgeOutcomes("autonomous")}

InitOverlap ==
    /\ mode = "overlap"
    /\ max_iters = 0
    /\ target_certainty = 0
    /\ initial_stimulus = <<>>
    /\ image_data = "none"
    /\ vision_init = "ok"
    /\ has_vision = HasVision(vision_init)
    /\ modules = RegisteredModules
    /\ pc = "idle"
    /\ context = <<>>
    /\ instruction = <<>>
    /\ Constructed
    /\ runs \in [Invocations ->
                    {[at |-> "created", input_text |-> t, results |-> <<>>,
                      winner |-> <<>>, returned |-> 0] : t \in Stimuli}]
    /\ ArbIdle
    /\ SanIdle
    /\ AnaIdle
    /\ MonIdle
    /\ GenIdle

\* run is called: the coroutine runs up to the await of process_stimulus,
\* which touches nothing of the engine's workspace
OverlapCall ==
    /\ \E i \in Invocations :
          /\ runs[i].at = "created"
          /\ runs' = [runs EXCEPT ![i].at = "dispatch"]
    /\ UNCHANGED <<arb_vars, san_vars, ana_vars, mon_vars, gen_vars, eng_vars>>

\* process_stimulus returns to an invocation: run stores the list and the
\* text in the engine's current workspace, arbitrates, and awaits the monitor
OverlapDispatched ==
    /\ \E i \in Invocations :
          /\ runs[i].at = "dispatch"
          /\ \E rs \in OverlapLists :
                /\ heap' = [heap EXCEPT ![engine_ws].all_results = rs,
                                        ![engine_ws].raw_stimulus = runs[i].input_text]
                /\ runs' = [runs EXCEPT ![i].results = rs,
                                        ![i].winner = <<Arbitrate(rs).value>>,
                                        ![i].at = "monitor"]
    /\ UNCHANGED <<arb_vars, san_vars, ana_vars, mon_vars, gen_vars, params, engine_ws, pc,
                   iter, context, instruction, cycle_vars, emitted, emitted_val, verdicts>>

\* the monitor returns to an invocation: broadcast builds the new workspace
\* from the engine's current one and run returns it
OverlapBroadcast ==
    /\ \E i \in Invocations :
          /\ runs[i].at = "monitor"
          /\ \E verdict \in OverlapVerdicts :
                LET ws == BroadcastWorkspace(runs[i].winner[1], verdict, heap[engine_ws])
                IN  /\ heap' = Append(heap, ws)
                    /\ engine_ws' = Len(heap) + 1
                    /\ emitted' = Append(emitted, Len(heap) + 1)
                    /\ emitted_val' = Append(emitted_val, ws)
                    /\ verdicts' = Append(verdicts, verdict)
                    /\ runs' = [runs EXCEPT ![i].at = "returned",
                                            ![i].returned = Len(emitted) + 1]
    /\ UNCHANGED <<arb_vars, san_vars, ana_vars, mon_vars, gen_vars, params, pc, iter,
                   context, instruction, cycle_vars>>

NextOverlap ==
    \/ OverlapCall
    \/ OverlapDispatched
    \/ OverlapBroadcast

SpecOverlap == InitOverlap /\ [][NextOverlap]_vars

(***************************************************************************)
(* Claims about overlapping calls of run (checked under SpecOverlap)       *)
(***************************************************************************)
\* C39: when two calls of run on the same engine overlap, the workspace each
\* of them returns carries, when it is returned, the all_results and the
\* raw_stimulus of its own invocation: the list its winner was selected from
\* and the text it was called with.
C39_OverlappingRunsKeepTheirOwn ==
    \A i \in Invocations :
        runs[i].at = "returned" =>
            LET ws == emitted_val[runs[i].returned]
            IN  /\ ws.all_results = runs[i].results
                /\ ws.raw_stimulus = runs[i].input_text
                /\ ws.winning_module = runs[i].winner[1].module_name

(***************************************************************************)
(* Claims about the construction of the engine (checked under SpecDispatch) *)
(***************************************************************************)
\* C40: a failure while the vision adapter is constructed does not abort
\* the construction of the engine: the engine exists with vision disabled,
\* and a dispatch on it, with or without image bytes, makes no vision call
\* and returns exactly one result per registered analyzer, each computed on
\* the stimulus text as it was given.
C40_VisionInitFailureDisablesVision ==
    vision_init # "ok" =>
        /\ ~has_vision
        /\ engine_ws \in 1..Len(heap)
        /\ pc = "run" => heap = <<EmptyWorkspace>>
        /\ vision_calls = <<>>
        /\ vision_result = <<>>
        /\ pc # "vision_wait"
        /\ \A k \in 1..Len(analyzer_calls) :
              /\ analyzer_calls[k].stimulus = initial_stimulus
              /\ analyzer_calls[k].prompt =
                    BuildPrompt(ModuleNames[k], initial_stimulus, context, instruction)
        /\ pc \in AfterJoin =>
              /\ Len(results) = NumModules
              /\ \A k \in 1..NumModules :
                    results[k] = JoinEntry(task_state[k], ModuleNames[k])

\* a dispatch with image bytes on an engine whose vision adapter could not
\* be constructed has returned its four results
C40_Witness ==
    /\ vision_init = "ValueError"
    /\ image_data = "bytes"
    /\ pc = "arbitrate"
    /\ Len(results) = 4
    /\ analyzer_calls[4].stimulus = initial_stimulus
====
